---- MODULE Spec2Model ----
(***************************************************************************)
(* Model of the MovieData catalog browser: the API client (tmdb.ts), the   *)
(* catalog service (movieApi.ts, actorApi.ts), the page loads of the view  *)
(* components and the client-side list processing.                         *)
(***************************************************************************)
EXTENDS Integers, Sequences, FiniteSets, TLC

(***************************************************************************)
(* PART 1 - API client and catalog service                                 *)
(***************************************************************************)

\* API client / catalog service: one catalog call and its progress
VARIABLES apiPc, apiFn, apiOutcome, apiRaised, apiReceived

\* Startup: the configured credential, the state of the application's module
\* graph, the catalog calls made, the HTTP requests issued through the client
\* and whether a view has issued its direct genre-list fetch
VARIABLES credential, appModule, apiCalls, httpRequests, genreFetchIssued

\* Detail and home views: the mounted view, its state, its loads
VARIABLES view, state, loads

\* ActorProfile filmography: the stored credits and the sort / search controls
VARIABLES movies, sortBy, searchQuery

\* Movie list view: which of the two implementations is mounted, its state
\* record, the URL search parameter, the filter selections of the first
\* implementation, the fetchMovies invocations and the genre request
VARIABLES version, listState, search, selectedGenres, selectedRating, selectedYear,
          fetches, genresRequest

\* The browser's time zone, in minutes east of UTC
VARIABLE utcOffset

\* Coming Soon view: the displayed list, the loading flag, the error, the
\* current page, the known page count and the getUpcoming requests issued
VARIABLES soonMovies, soonLoading, soonError, soonPage, soonTotalPages, soonRequests

\* Shaping of responses into view-model records: the handler that ran last,
\* what the remote source returned to it and what it stored
VARIABLES shapeOp, shapeReturned, shapeStored

\* Diagnostic logging of the API client: the position of the request, the
\* URL of the request, and the lines written to the console
VARIABLES logPc, logUrl, console

apiVars == <<apiPc, apiFn, apiOutcome, apiRaised, apiReceived,
            credential, appModule, apiCalls, httpRequests, genreFetchIssued>>

fanVars == <<view, state, loads>>

filmVars == <<movies, sortBy, searchQuery>>

listVars == <<version, listState, search, selectedGenres, selectedRating, selectedYear,
              fetches, genresRequest, utcOffset>>

soonVars == <<soonMovies, soonLoading, soonError, soonPage, soonTotalPages, soonRequests>>

shapeVars == <<shapeOp, shapeReturned, shapeStored>>

logVars == <<logPc, logUrl, console>>

vars == <<apiVars, fanVars, filmVars, listVars, soonVars, shapeVars, logVars>>

\* What the actions of one part leave alone: the variables of the other parts
exceptApi == <<fanVars, filmVars, listVars, soonVars, shapeVars, logVars>>

exceptFan == <<apiVars, filmVars, listVars, soonVars, shapeVars, logVars>>

exceptFilm == <<apiVars, fanVars, listVars, soonVars, shapeVars, logVars>>

exceptList == <<apiVars, fanVars, filmVars, soonVars, shapeVars, logVars>>

exceptSoon == <<apiVars, fanVars, filmVars, listVars, shapeVars, logVars>>

exceptShape == <<apiVars, fanVars, filmVars, listVars, soonVars, logVars>>

exceptLog == <<apiVars, fanVars, filmVars, listVars, soonVars, shapeVars>>

\* "undefined" of the TypeScript source
Undefined == "undefined"

\* statusCode?: number -- an absent status code (no HTTP status is 0)
UndefinedStatus == 0

\* enum TMDBErrorType
TMDBErrorType ==
  {"AUTHENTICATION", "NOT_FOUND", "RATE_LIMIT", "SERVER_ERROR", "NETWORK_ERROR", "UNKNOWN"}

\* class TMDBError: the constructor defaults statusCode and response to
\* undefined and errorType to UNKNOWN
TMDBError(message, statusCode, errorType, response) ==
  [message |-> message, statusCode |-> statusCode, errorType |-> errorType, response |-> response]

TMDBErrorDefault(message) == TMDBError(message, UndefinedStatus, "UNKNOWN", Undefined)

\* Statuses axios hands to the error handler (validateStatus rejects
\* everything outside 2xx); the 4xx and 5xx ranges are modelled in full.
ErrorStatuses == 400..599

\* Response bodies of a failed request: a TMDB error document carrying a
\* status_message, or a body without one.
ErrorBodies == {"body_with_status_message", "body_without_message"}

NoResponse == [response |-> FALSE, status |-> UndefinedStatus, data |-> Undefined]

HttpError(status, data) == [response |-> TRUE, status |-> status, data |-> data]

ErrorOutcomes ==
  {NoResponse} \cup {HttpError(s, d) : s \in ErrorStatuses, d \in ErrorBodies}

Success == [response |-> TRUE, status |-> 200, data |-> "json"]

\* data?.status_message || 'An unknown error occurred'
UnknownMessage(data) ==
  IF data = "body_with_status_message" THEN "status_message" ELSE "An unknown error occurred"

\* The statuses of the `case 500: case 502: case 503: case 504:` arm
ServerErrorCases == {500, 502, 503, 504}

\* Variant of the error handler without the `case 429` arm
ResponseErrorHandler_no429(error) ==
  IF error.response
  THEN CASE error.status = 401 ->
              TMDBError("Authentication failed. Please check your API key.",
                        error.status, "AUTHENTICATION", error.data)
         [] error.status = 404 ->
              TMDBError("The requested resource was not found.",
                        error.status, "NOT_FOUND", error.data)
         [] error.status \in ServerErrorCases ->
              TMDBError("TMDB server error. Please try again later.",
                        error.status, "SERVER_ERROR", error.data)
         [] OTHER ->
              TMDBError(UnknownMessage(error.data), error.status, "UNKNOWN", error.data)
  ELSE TMDBError("Network error. Please check your internet connection.",
                 UndefinedStatus, "NETWORK_ERROR", Undefined)

\* tmdbApi.interceptors.response, error handler
ResponseErrorHandler(error) ==
  IF error.response
  THEN CASE error.status = 401 ->
              TMDBError("Authentication failed. Please check your API key.",
                        error.status, "AUTHENTICATION", error.data)
         [] error.status = 404 ->
              TMDBError("The requested resource was not found.",
                        error.status, "NOT_FOUND", error.data)
         [] error.status = 429 ->
              TMDBError("Rate limit exceeded. Please try again later.",
                        error.status, "RATE_LIMIT", error.data)
         [] error.status \in ServerErrorCases ->
              TMDBError("TMDB server error. Please try again later.",
                        error.status, "SERVER_ERROR", error.data)
         [] OTHER ->
              TMDBError(UnknownMessage(error.data), error.status, "UNKNOWN", error.data)
  ELSE TMDBError("Network error. Please check your internet connection.",
                 UndefinedStatus, "NETWORK_ERROR", Undefined)

\* movieApi: every function catches and throws a fresh TMDBError
MovieApiFns ==
  {"movieApi.getDetails", "movieApi.getCredits", "movieApi.getVideos",
   "movieApi.getImages", "movieApi.getReviews", "movieApi.getSimilar",
   "movieApi.getRecommendations", "movieApi.getKeywords",
   "movieApi.getWatchProviders", "movieApi.searchMovies", "movieApi.getTrending",
   "movieApi.getNowPlaying", "movieApi.getPopular", "movieApi.getTopRated",
   "movieApi.getUpcoming"}

\* actorApi functions whose catch block logs and rethrows the caught error
ActorApiRethrowFns ==
  {"actorApi.getActorDetails", "actorApi.getActorMovieCredits",
   "actorApi.getActorImages", "actorApi.searchActors"}

\* actorApi functions whose catch block throws a fresh TMDBError
ActorApiWrapFns ==
  {"actorApi.getDetails", "actorApi.getMovieCredits", "actorApi.getTVCredits",
   "actorApi.getCombinedCredits", "actorApi.getExternalIds",
   "actorApi.getTaggedImages", "actorApi.getPopularActors", "actorApi.getChanges",
   "actorApi.getFormattedFilmography"}

ActorApiFns == ActorApiRethrowFns \cup ActorApiWrapFns

CatalogFns == MovieApiFns \cup ActorApiFns

\* The message of the fresh error, 'Failed to ...': one text per function,
\* represented by the function's name
FailedMessage(fn) == fn

\* The catch block of catalog function fn, applied to the caught error
ServiceCatch(fn, error) ==
  IF fn \in ActorApiRethrowFns THEN error ELSE TMDBErrorDefault(FailedMessage(fn))

NoError == [message |-> "", statusCode |-> UndefinedStatus, errorType |-> "none", response |-> Undefined]

NoResult == [settled |-> FALSE, ok |-> FALSE, error |-> NoError]

\* Number of catalog calls of one behaviour
MaxCalls == 2

\* process.env.REACT_APP_TMDB_API_KEY: not set, set to the empty string, set
Credentials == {Undefined, "", "key"}

\* if (!TMDB_API_KEY) throw new Error(...)
KeyMissing(key) == key \in {Undefined, ""}

\* Variant of the startup check that defers the failure to the first request
EvaluateImports_deferred(key) == "loaded"

\* The outcome of evaluating the module graph: every page module imports
\* tmdb.ts, whose top-level check throws before any component is defined
EvaluateImports(key) == IF KeyMissing(key) THEN "failed" ELSE "loaded"

\* Variant of a catalog call that answers a repeated call from a stored result
requestsAfterCall_cached(fn, issued) == IF fn = apiFn THEN issued ELSE issued + 1

\* A catalog call issues one GET through tmdbApi, whatever was called before
requestsAfterCall(fn, issued) == issued + 1

\* No catalog call in progress, for a given credential and module state
ApiStart(key, module) ==
  /\ apiPc = "idle"
  /\ apiFn = "none"
  /\ apiOutcome = Success
  /\ apiRaised = NoError
  /\ apiReceived = NoResult
  /\ credential = key
  /\ appModule = module
  /\ apiCalls = 0
  /\ httpRequests = 0
  /\ genreFetchIssued = FALSE

\* The application is loaded with a credential; no catalog call in progress
ApiIdle == ApiStart("key", "loaded")

\* Startup: the bundle evaluates its modules, tmdb.ts among them
EvaluateModules ==
  /\ appModule = "unevaluated"
  /\ appModule' = EvaluateImports(credential)
  /\ UNCHANGED <<apiPc, apiFn, apiOutcome, apiRaised, apiReceived>>
  /\ UNCHANGED <<credential, apiCalls, httpRequests, genreFetchIssued>>
  /\ UNCHANGED exceptApi

\* A mounted view issues its direct fetch of the genre list
ViewFetchGenres ==
  /\ appModule = "loaded"
  /\ ~genreFetchIssued
  /\ genreFetchIssued' = TRUE
  /\ UNCHANGED <<apiPc, apiFn, apiOutcome, apiRaised, apiReceived>>
  /\ UNCHANGED <<credential, appModule, apiCalls, httpRequests>>
  /\ UNCHANGED exceptApi

\* A caller invokes catalog function fn, which issues its GET request
CallService(fn) ==
  /\ appModule = "loaded"
  /\ apiCalls < MaxCalls
  /\ apiCalls' = apiCalls + 1
  /\ httpRequests' = requestsAfterCall(fn, httpRequests)
  /\ UNCHANGED <<credential, appModule, genreFetchIssued>>
  /\ apiPc = "idle"
  /\ apiPc' = "pending"
  /\ apiFn' = fn
  /\ apiOutcome' = Success
  /\ apiRaised' = NoError
  /\ apiReceived' = NoResult
  /\ UNCHANGED exceptApi

\* The request succeeds: the success interceptor returns the response and
\* the function returns response.data
RespondOk ==
  /\ apiPc = "pending"
  /\ apiPc' = "returned"
  /\ apiOutcome' = Success
  /\ apiReceived' = [settled |-> TRUE, ok |-> TRUE, error |-> NoError]
  /\ UNCHANGED <<credential, appModule, apiCalls, httpRequests, genreFetchIssued>>
  /\ UNCHANGED <<apiFn, apiRaised>>
  /\ UNCHANGED exceptApi

\* The request fails: the error interceptor classifies the outcome and throws
RespondError(outcome) ==
  /\ apiPc = "pending"
  /\ apiPc' = "raised"
  /\ apiOutcome' = outcome
  /\ apiRaised' = ResponseErrorHandler(outcome)
  /\ UNCHANGED <<credential, appModule, apiCalls, httpRequests, genreFetchIssued>>
  /\ UNCHANGED <<apiFn, apiReceived>>
  /\ UNCHANGED exceptApi

\* The catalog function's catch block runs and the caller's await rejects
ServiceThrow ==
  /\ apiPc = "raised"
  /\ apiPc' = "returned"
  /\ apiReceived' = [settled |-> TRUE, ok |-> FALSE, error |-> ServiceCatch(apiFn, apiRaised)]
  /\ UNCHANGED <<credential, appModule, apiCalls, httpRequests, genreFetchIssued>>
  /\ UNCHANGED <<apiFn, apiOutcome, apiRaised>>
  /\ UNCHANGED exceptApi

\* The caller has consumed the result; the client is ready for the next call
CallerDone ==
  /\ apiPc = "returned"
  /\ apiPc' = "idle"
  /\ UNCHANGED <<credential, appModule, apiCalls, httpRequests, genreFetchIssued>>
  /\ UNCHANGED <<apiFn, apiOutcome, apiRaised, apiReceived>>
  /\ UNCHANGED exceptApi

NextApi ==
  \/ EvaluateModules
  \/ ViewFetchGenres
  \/ \E fn \in CatalogFns : CallService(fn)
  \/ RespondOk
  \/ \E outcome \in ErrorOutcomes : RespondError(outcome)
  \/ ServiceThrow
  \/ CallerDone

(***************************************************************************)
(* PART 2 - view loads of the detail views and the home view               *)
(***************************************************************************)

\* Number of loads (effect runs: mount, then route id changes) of one view component
MaxLoads == 2

Null == "null"

\* The routed views whose load awaits a Promise.all fan-out and, with a single
\* awaited call in its place, the top rated view
Pages ==
  {"MovieDetails", "MovieDetailsTwoPhase", "ActorDetails", "ActorProfile", "Home", "Toprated"}

\* Number of calls in the Promise.all of each view's load
FanoutSize(p) ==
  CASE p = "MovieDetails" -> 7
    [] p = "MovieDetailsTwoPhase" -> 3
    [] p = "ActorDetails" -> 3
    [] p = "ActorProfile" -> 3
    [] p = "Home" -> 4
    [] p = "Toprated" -> 1

\* Number of calls in the Promise.all of loadExtraData
SecondarySize == 2

\* useState initial value of each view: loading true, no error, no data.
\* data / extra hold the number of the load whose results are stored
\* (0: the initial empty value); extra is similarMovies + recommendations.
InitialState == [loading |-> TRUE, error |-> Null, data |-> 0, extra |-> 0]

\* ---- MovieDetails.tsx ----
\* setState(prev => ({ ...prev, loading: true, error: null }))
fetchMovieData_start(prev) == [prev EXCEPT !.loading = TRUE, !.error = Null]

\* testApi: if (!isConnected) setState(loading: false, error: ...)
testApi_failed(prev) ==
  [prev EXCEPT !.loading = FALSE, !.error = "Failed to connect to TMDB API."]

\* the setState after the Promise.all of the seven calls
fetchMovieData_success(prev, l) ==
  [prev EXCEPT !.data = l, !.extra = l, !.loading = FALSE]

\* Variant of the catch block that leaves the loading flag set
fetchMovieData_catch_keepsLoading(prev) ==
  [prev EXCEPT !.error = "Failed to fetch movie data."]

fetchMovieData_catch(prev) ==
  [prev EXCEPT !.loading = FALSE, !.error = "Failed to fetch movie data."]

\* ---- two-phase MovieDetails (fetchMovieDetails / loadExtraData) ----
fetchMovieDetails_start(prev) == [prev EXCEPT !.loading = TRUE, !.error = Null]

\* details carries no similarMovies / recommendations of its own, so the
\* `|| []` arms store the empty lists
fetchMovieDetails_success(prev, l) ==
  [prev EXCEPT !.data = l, !.extra = 0, !.loading = FALSE]

fetchMovieDetails_catch(prev) ==
  [prev EXCEPT !.loading = FALSE, !.error = "Failed to load movie details."]

loadExtraData_success(prev, l) == [prev EXCEPT !.extra = l]

\* Variant in which a rejection of loadExtraData reaches the outer catch block
loadExtraData_catch_setsError(prev) == fetchMovieDetails_catch(prev)

\* loadExtraData().catch(console.error): the rejection is only logged
loadExtraData_catch(prev) == prev

\* What the two-phase view renders: if (!movie) return <Loading />, else
\* the page; state.loading and state.error are not read
MovieDetailsTwoPhase_render(st) == IF st.data = 0 THEN "Loading" ELSE "page"

\* ---- ActorDetails.tsx ----
fetchActorData_start(prev) == [prev EXCEPT !.loading = TRUE, !.error = Null]

\* setState({ actor, movies, socialMedia, loading: false, error: null })
fetchActorData_success(prev, l) ==
  [loading |-> FALSE, error |-> Null, data |-> l, extra |-> prev.extra]

\* Variant of the catch block that leaves the loading flag set
fetchActorData_catch_keepsLoading(prev) ==
  [prev EXCEPT !.error = "Failed to load actor information."]

fetchActorData_catch(prev) ==
  [prev EXCEPT !.loading = FALSE, !.error = "Failed to load actor information."]

\* ---- ActorProfile ----
\* setLoading(true); setError(null)
ActorProfile_start(prev) == [prev EXCEPT !.loading = TRUE, !.error = Null]

\* setActor, setSocialMedia, setExtendedBio, setMovies; finally setLoading(false)
ActorProfile_success(prev, l) == [prev EXCEPT !.data = l, !.loading = FALSE]

\* setError(...); finally setLoading(false)
ActorProfile_catch(prev) ==
  [prev EXCEPT !.loading = FALSE, !.error = "Failed to load actor information."]

\* ---- Home ----
\* fetchData sets no state before its first await
fetchData_start(prev) == prev

fetchData_success(prev, l) == [prev EXCEPT !.data = l, !.loading = FALSE]

fetchData_catch(prev) ==
  [prev EXCEPT !.error = "Failed to fetch movies. Please try again later.", !.loading = FALSE]

\* ---- Toprated.tsx ----
\* fetchTopRatedMovies sets no state before its await
fetchTopRatedMovies_success(prev, l) == [prev EXCEPT !.data = l, !.loading = FALSE]

fetchTopRatedMovies_catch(prev) ==
  [prev EXCEPT !.error = "Failed to fetch top rated movies. Please try again later.",
               !.loading = FALSE]

\* ---- dispatch on the mounted view ----
OnStart(p, prev) ==
  CASE p = "MovieDetails" -> fetchMovieData_start(prev)
    [] p = "MovieDetailsTwoPhase" -> fetchMovieDetails_start(prev)
    [] p = "ActorDetails" -> fetchActorData_start(prev)
    [] p = "ActorProfile" -> ActorProfile_start(prev)
    [] p = "Home" -> fetchData_start(prev)
    [] p = "Toprated" -> prev

OnSuccess(p, prev, l) ==
  CASE p = "MovieDetails" -> fetchMovieData_success(prev, l)
    [] p = "MovieDetailsTwoPhase" -> fetchMovieDetails_success(prev, l)
    [] p = "ActorDetails" -> fetchActorData_success(prev, l)
    [] p = "ActorProfile" -> ActorProfile_success(prev, l)
    [] p = "Home" -> fetchData_success(prev, l)
    [] p = "Toprated" -> fetchTopRatedMovies_success(prev, l)

OnCatch(p, prev) ==
  CASE p = "MovieDetails" -> fetchMovieData_catch(prev)
    [] p = "MovieDetailsTwoPhase" -> fetchMovieDetails_catch(prev)
    [] p = "ActorDetails" -> fetchActorData_catch(prev)
    [] p = "ActorProfile" -> ActorProfile_catch(prev)
    [] p = "Home" -> fetchData_catch(prev)
    [] p = "Toprated" -> fetchTopRatedMovies_catch(prev)

\* Variant in which MovieDetails issues its fan-out without the connection test
FirstStage_noTest(p) == IF p = "Home" THEN "genres" ELSE "fanout"

\* The await that a load's async function is suspended on first
FirstStage(p) ==
  CASE p = "MovieDetails" -> "test"
    [] p = "Home" -> "genres"
    [] OTHER -> "fanout"

\* A load: the stage its async function is suspended at, and the calls of
\* its Promise.all fan-outs that are still outstanding / have rejected.
\* genresOk: whether the genre document fetched by Home has a genres array.
NewLoad(p) ==
  [stage |-> FirstStage(p),
   pending |-> IF FirstStage(p) = "fanout" THEN FanoutSize(p) ELSE 0,
   rejected |-> 0,
   secPending |-> 0,
   secRejected |-> 0,
   genresOk |-> TRUE]

\* Variant that fulfils as soon as one input promise has fulfilled
AllFulfilled_any(pending, rejected) == rejected = 0

\* Promise.all fulfils when every input promise has fulfilled
AllFulfilled(pending, rejected) == pending = 0 /\ rejected = 0

\* Promise.all rejects at the first rejection of an input promise
FirstRejection(rejected) == rejected = 1

\* The Home view mounted, its effect not yet run
FanIdle ==
  /\ view = "Home"
  /\ state = InitialState
  /\ loads = <<>>

Loads == 1..Len(loads)

\* The effect runs (mount, or the route id changed): the async load function
\* starts, writes the loading state and issues its first request(s).
\* Home's effect has no dependencies and runs once; so does Toprated's,
\* whose dependency state.page is never written.
StartLoad ==
  /\ Len(loads) < MaxLoads
  /\ view \in {"Home", "Toprated"} => loads = <<>>
  /\ state' = OnStart(view, state)
  /\ loads' = Append(loads, NewLoad(view))
  /\ UNCHANGED view
  /\ UNCHANGED exceptFan

\* MovieDetails: tmdbService.testConnection() returned true; the seven
\* calls are issued
TestConnectionOk(l) ==
  /\ loads[l].stage = "test"
  /\ loads' = [loads EXCEPT ![l].stage = "fanout", ![l].pending = FanoutSize(view)]
  /\ UNCHANGED <<view, state>>
  /\ UNCHANGED exceptFan

\* MovieDetails: testConnection caught an error and returned false
TestConnectionFailed(l) ==
  /\ loads[l].stage = "test"
  /\ state' = testApi_failed(state)
  /\ loads' = [loads EXCEPT ![l].stage = "done"]
  /\ UNCHANGED view
  /\ UNCHANGED exceptFan

\* Home: the genre document arrived and was parsed; hasGenres is false when
\* the body is an error document without a `genres` array (fetch does not
\* reject on an HTTP error status). The four calls are issued.
GenresFetched(l, hasGenres) ==
  /\ loads[l].stage = "genres"
  /\ loads' = [loads EXCEPT ![l].stage = "fanout", ![l].pending = FanoutSize(view),
                            ![l].genresOk = hasGenres]
  /\ UNCHANGED <<view, state>>
  /\ UNCHANGED exceptFan

\* Home: fetch() or response.json() rejected
GenresFailed(l) ==
  /\ loads[l].stage = "genres"
  /\ state' = fetchData_catch(state)
  /\ loads' = [loads EXCEPT ![l].stage = "done"]
  /\ UNCHANGED view
  /\ UNCHANGED exceptFan

\* One call of the fan-out of load l fulfils. When it is the last one and
\* none rejected, Promise.all fulfils and the code after the await runs.
\* hasImages: details.images is present (two-phase view).
\* anyGenreId: some fetched movie has a genre id (Home: addGenresToMovie then
\* reads genresData.genres.find, a TypeError when genres is undefined).
CallFulfilled(l, hasImages, anyGenreId) ==
  /\ loads[l].pending > 0
  /\ LET pending == loads[l].pending - 1
         done == loads[l].stage = "fanout" /\ AllFulfilled(pending, loads[l].rejected)
     IN  CASE ~done ->
                /\ loads' = [loads EXCEPT ![l].pending = pending]
                /\ UNCHANGED state
           [] done /\ view = "MovieDetailsTwoPhase" /\ ~hasImages ->
                /\ loads' = [loads EXCEPT ![l].pending = pending, ![l].stage = "images"]
                /\ UNCHANGED state
           [] done /\ view = "MovieDetailsTwoPhase" /\ hasImages ->
                /\ loads' = [loads EXCEPT ![l].pending = pending, ![l].stage = "secondary",
                                          ![l].secPending = SecondarySize]
                /\ state' = OnSuccess(view, state, l)
           [] done /\ view = "Home" /\ ~loads[l].genresOk /\ anyGenreId ->
                /\ loads' = [loads EXCEPT ![l].pending = pending, ![l].stage = "done"]
                /\ state' = OnCatch(view, state)
           [] OTHER ->
                /\ loads' = [loads EXCEPT ![l].pending = pending, ![l].stage = "done"]
                /\ state' = OnSuccess(view, state, l)
  /\ UNCHANGED view
  /\ UNCHANGED exceptFan

\* One call of the fan-out of load l rejects. At the first rejection
\* Promise.all rejects and the catch block runs; the sibling calls stay
\* outstanding and settle later.
CallRejected(l) ==
  /\ loads[l].pending > 0
  /\ LET rejected == loads[l].rejected + 1
     IN  IF loads[l].stage = "fanout" /\ FirstRejection(rejected)
         THEN /\ loads' = [loads EXCEPT ![l].pending = @ - 1, ![l].rejected = rejected,
                                        ![l].stage = "done"]
              /\ state' = OnCatch(view, state)
         ELSE /\ loads' = [loads EXCEPT ![l].pending = @ - 1, ![l].rejected = rejected]
              /\ UNCHANGED state
  /\ UNCHANGED view
  /\ UNCHANGED exceptFan

\* Two-phase view: `await movieApi.getImages(id)` fulfils; the view state is
\* written and loadExtraData is started
ImagesFulfilled(l) ==
  /\ loads[l].stage = "images"
  /\ state' = OnSuccess(view, state, l)
  /\ loads' = [loads EXCEPT ![l].stage = "secondary", ![l].secPending = SecondarySize]
  /\ UNCHANGED view
  /\ UNCHANGED exceptFan

ImagesRejected(l) ==
  /\ loads[l].stage = "images"
  /\ state' = OnCatch(view, state)
  /\ loads' = [loads EXCEPT ![l].stage = "done"]
  /\ UNCHANGED view
  /\ UNCHANGED exceptFan

\* One call of loadExtraData's Promise.all fulfils
SecondaryFulfilled(l) ==
  /\ loads[l].secPending > 0
  /\ LET pending == loads[l].secPending - 1
     IN  IF loads[l].stage = "secondary" /\ AllFulfilled(pending, loads[l].secRejected)
         THEN /\ loads' = [loads EXCEPT ![l].secPending = pending, ![l].stage = "done"]
              /\ state' = loadExtraData_success(state, l)
         ELSE /\ loads' = [loads EXCEPT ![l].secPending = pending]
              /\ UNCHANGED state
  /\ UNCHANGED view
  /\ UNCHANGED exceptFan

\* One call of loadExtraData's Promise.all rejects
SecondaryRejected(l) ==
  /\ loads[l].secPending > 0
  /\ LET rejected == loads[l].secRejected + 1
     IN  IF loads[l].stage = "secondary" /\ FirstRejection(rejected)
         THEN /\ loads' = [loads EXCEPT ![l].secPending = @ - 1, ![l].secRejected = rejected,
                                        ![l].stage = "done"]
              /\ state' = loadExtraData_catch(state)
         ELSE /\ loads' = [loads EXCEPT ![l].secPending = @ - 1, ![l].secRejected = rejected]
              /\ UNCHANGED state
  /\ UNCHANGED view
  /\ UNCHANGED exceptFan

NextFan ==
  \/ StartLoad
  \/ \E l \in Loads : TestConnectionOk(l)
  \/ \E l \in Loads : TestConnectionFailed(l)
  \/ \E l \in Loads, hasGenres \in BOOLEAN : GenresFetched(l, hasGenres)
  \/ \E l \in Loads : GenresFailed(l)
  \/ \E l \in Loads, hasImages \in BOOLEAN, anyGenreId \in BOOLEAN :
        CallFulfilled(l, hasImages, anyGenreId)
  \/ \E l \in Loads : CallRejected(l)
  \/ \E l \in Loads : ImagesFulfilled(l)
  \/ \E l \in Loads : ImagesRejected(l)
  \/ \E l \in Loads : SecondaryFulfilled(l)
  \/ \E l \in Loads : SecondaryRejected(l)

(***************************************************************************)
(* PART 3 - movie list view (both implementations of MovieList.tsx)        *)
(***************************************************************************)

\* Number of fetchMovies invocations of one mounted list view
MaxFetches == 3

\* Math.min(data.total_pages, 10)
PageCap == 10

\* The two implementations: selectedGenres / selectedRating / selectedYear,
\* and activeFilters chips
Versions == {"selected", "chips"}

\* The genre catalog of the remote source (genre ids)
GenreCatalog == <<[id |-> 1, name |-> "Action"], [id |-> 2, name |-> "Drama"]>>

\* ---- numbers with NaN ----
NaN == [nan |-> TRUE, v |-> 0]

Num(n) == [nan |-> FALSE, v |-> n]

\* Movies of the remote source; genre id 3 is not in the catalog.
\* vote_average in tenths; release_date 0 is the empty string, otherwise
\* "YYYY-MM-DD" written as the number YYYYMMDD.
MoviePool ==
  { [id |-> 1, genre_ids |-> <<1, 2>>, vote_average |-> 83, release_date |-> 20240101],
    [id |-> 2, genre_ids |-> <<1>>, vote_average |-> 80, release_date |-> 20211022],
    [id |-> 3, genre_ids |-> <<2, 3>>, vote_average |-> 65, release_date |-> 0] }

\* Time zones of the browser: one west and one east of UTC
UtcOffsets == {-300, 60}

\* The year written in a release date
YearOf(release_date) == release_date \div 10000

\* The month and day written in a release date, as MMDD
MonthDayOf(release_date) == release_date % 10000

\* new Date(release_date).getFullYear(): the date-only string is parsed as
\* midnight UTC and the year is read in local time; west of UTC midnight of
\* 1 January falls in the previous year. NaN for the empty string.
getFullYear(release_date) ==
  IF release_date = 0 THEN NaN
  ELSE IF utcOffset < 0 /\ MonthDayOf(release_date) = 101
       THEN Num(YearOf(release_date) - 1)
       ELSE Num(YearOf(release_date))

\* number === number, false when either side is NaN
StrictEquals(x, n) == ~x.nan /\ x.v = n

\* The results arrays a list response can carry
ResultLists ==
  { <<>> } \cup { r \in MoviePool \X MoviePool : r[1].id + 1 = r[2].id }

\* The total_pages values a list response can carry; one exceeds the cap
TotalPages == {1, 2, 12}

\* Search texts (already trimmed); "" is the empty input
SearchInputs == {"", "dune"}

\* const ratings = [7, 7.5, 8, 8.5, 9] (tenths); one of them is modelled
Ratings == {80}

\* const years: the current year and the years before it; one is modelled
Years == {2024}

Min(a, b) == IF a < b THEN a ELSE b

SeqRange(seq) == { seq[k] : k \in 1..Len(seq) }

RECURSIVE SeqFilter(_, _)
\* Array.prototype.filter with the predicate given as the set of kept values
SeqFilter(seq, keep) ==
  IF seq = <<>> THEN <<>>
  ELSE IF Head(seq) \in keep
       THEN <<Head(seq)>> \o SeqFilter(Tail(seq), keep)
       ELSE SeqFilter(Tail(seq), keep)

\* useState<MovieListState> initial value
InitialListState ==
  [movies |-> <<>>, genres |-> <<>>, loading |-> TRUE, error |-> Null,
   page |-> 1, totalPages |-> 1, activeFilters |-> <<>>]

\* The filter chips the panel offers: one per catalog genre, rating and year
GenreChip(genreId) == [id |-> <<"genre", genreId>>, type |-> "genre", value |-> genreId]

RatingChip(rating) == [id |-> <<"rating", rating>>, type |-> "rating", value |-> rating]

YearChip(year) == [id |-> <<"year", year>>, type |-> "year", value |-> year]

\* The ids of a genre list
GenreIds(genres) == { genres[k].id : k \in 1..Len(genres) }

\* genres.find(genre => genre.id === id), for an id the list holds
find(genres, id) ==
  genres[CHOOSE k \in 1..Len(genres) :
           genres[k].id = id /\ \A j \in 1..(k - 1) : genres[j].id # id]

\* Variant of resolveGenres that keeps the ids in catalog order
resolveGenres_catalogOrder(genre_ids, genres) ==
  SeqFilter(genres, { g \in SeqRange(genres) : g.id \in SeqRange(genre_ids) })

RECURSIVE resolveGenres(_, _)
\* genre_ids.map(id => genres.find(...)).filter(genre => genre !== undefined)
resolveGenres(genre_ids, genres) ==
  IF genre_ids = <<>> THEN <<>>
  ELSE (IF Head(genre_ids) \in GenreIds(genres)
        THEN <<find(genres, Head(genre_ids))>>
        ELSE <<>>) \o resolveGenres(Tail(genre_ids), genres)

\* moviesWithGenres: genre_ids mapped through the genre list captured by the
\* fetch, ids without an entry dropped
moviesWithGenres(results, genres) ==
  [k \in 1..Len(results) |->
     [id |-> results[k].id, genre_ids |-> results[k].genre_ids,
      vote_average |-> results[k].vote_average, release_date |-> results[k].release_date,
      genres |-> resolveGenres(results[k].genre_ids, genres)]]

\* List entries as the first implementation stores them: data.results as is
\* (list responses carry no `genres` field)
rawMovies(results) ==
  [k \in 1..Len(results) |->
     [id |-> results[k].id, genre_ids |-> results[k].genre_ids,
      vote_average |-> results[k].vote_average, release_date |-> results[k].release_date,
      genres |-> <<>>]]

\* ---- filters of the first implementation ----
genreMatch(movie) ==
  IF Len(selectedGenres) = 0 THEN TRUE
  ELSE \A k \in 1..Len(selectedGenres) : selectedGenres[k] \in SeqRange(movie.genre_ids)

\* Variant of ratingMatch with a strict comparison
ratingMatch_strict(movie) ==
  selectedRating = 0 \/ movie.vote_average > selectedRating

ratingMatch(movie) ==
  selectedRating = 0 \/ movie.vote_average >= selectedRating

yearMatch(movie) ==
  selectedYear = 0
    \/ (movie.release_date # 0 /\ StrictEquals(getFullYear(movie.release_date), selectedYear))

\* ---- filter of the chip implementation: the switch on filter.type ----
chipMatch(filter, movie) ==
  CASE filter.type = "genre" -> \E k \in 1..Len(movie.genres) : movie.genres[k].id = filter.value
    [] filter.type = "rating" -> movie.vote_average >= filter.value
    [] filter.type = "year" -> StrictEquals(getFullYear(movie.release_date), filter.value)
    [] OTHER -> TRUE

\* Variant of the filter predicate that also requires a release date
movieKept_datedOnly(movie) ==
  /\ movie.release_date # 0
  /\ IF version = "selected"
     THEN genreMatch(movie) /\ ratingMatch(movie) /\ yearMatch(movie)
     ELSE \A k \in 1..Len(listState.activeFilters) : chipMatch(listState.activeFilters[k], movie)

movieKept(movie) ==
  IF version = "selected"
  THEN genreMatch(movie) /\ ratingMatch(movie) /\ yearMatch(movie)
  ELSE \A k \in 1..Len(listState.activeFilters) : chipMatch(listState.activeFilters[k], movie)

\* const filteredMovies = state.movies.filter(...)
filteredMovies ==
  SeqFilter(listState.movies,
            { listState.movies[k] : k \in { i \in 1..Len(listState.movies) : movieKept(listState.movies[i]) } })

\* The view renders the list and its controls (neither spinner nor error box)
Rendered == fetches # <<>> /\ ~listState.loading /\ listState.error = Null

\* fetchMovies up to its await: setState(loading: true, error: null) and the
\* request, which captures search and state.page of the render; the chip
\* implementation also reads the captured state.genres after the await
fetchMovies_start(ls) == [ls EXCEPT !.loading = TRUE, !.error = Null]

\* Variant of the catch block that also drops the stored movies
fetchMovies_catch_clearsMovies(ls) ==
  [ls EXCEPT !.movies = <<>>,
             !.error = "Failed to fetch movies. Please try again later.", !.loading = FALSE]

\* fetchMovies catch block: setState(prev => ({...prev, error: ..., loading: false}))
fetchMovies_catch(ls) ==
  [ls EXCEPT !.error = "Failed to fetch movies. Please try again later.", !.loading = FALSE]

NewFetch(ls, searchParam) ==
  [search |-> searchParam, page |-> ls.page,
   genres |-> IF version = "chips" THEN ls.genres ELSE <<>>, status |-> "pending"]

\* The state change ls / searchParam followed by the fetchMovies effect
\* when one of its dependencies changed
RunFetchEffect(ls, searchParam, changed) ==
  IF changed
  THEN /\ Len(fetches) < MaxFetches
       /\ listState' = fetchMovies_start(ls)
       /\ fetches' = Append(fetches, NewFetch(ls, searchParam))
  ELSE /\ listState' = ls
       /\ UNCHANGED fetches

\* The list view before its effects have run
ListIdle ==
  /\ version = "selected"
  /\ listState = InitialListState
  /\ search = Null
  /\ selectedGenres = <<>>
  /\ selectedRating = 0
  /\ selectedYear = 0
  /\ fetches = <<>>
  /\ genresRequest = "idle"
  /\ utcOffset = 60

\* Mount: the fetchGenres effect and the fetchMovies effect run
ListMount ==
  /\ genresRequest = "idle"
  /\ genresRequest' = "pending"
  /\ RunFetchEffect(listState, search, TRUE)
  /\ UNCHANGED <<utcOffset, version, search, selectedGenres, selectedRating, selectedYear>>
  /\ UNCHANGED exceptList

\* fetchGenres: setState(genres: data.genres). In the chip implementation
\* state.genres is a dependency of the fetchMovies effect, which runs again.
ListGenresFetched ==
  /\ genresRequest = "pending"
  /\ genresRequest' = "done"
  /\ RunFetchEffect([listState EXCEPT !.genres = GenreCatalog], search, version = "chips")
  /\ UNCHANGED <<utcOffset, version, search, selectedGenres, selectedRating, selectedYear>>
  /\ UNCHANGED exceptList

\* fetchGenres: the catch block logs the error
ListGenresFailed ==
  /\ genresRequest = "pending"
  /\ genresRequest' = "failed"
  /\ UNCHANGED <<utcOffset, version, listState, search, selectedGenres, selectedRating, selectedYear, fetches>>
  /\ UNCHANGED exceptList

\* fetchMovies after its await: the response of invocation f arrived
MoviesFetched(f, results, total_pages) ==
  /\ fetches[f].status = "pending"
  /\ fetches' = [fetches EXCEPT ![f].status = "fulfilled"]
  /\ listState' =
       [listState EXCEPT
          !.movies = IF version = "chips"
                     THEN moviesWithGenres(results, fetches[f].genres)
                     ELSE rawMovies(results),
          !.totalPages = Min(total_pages, PageCap),
          !.loading = FALSE]
  /\ UNCHANGED <<utcOffset, version, search, selectedGenres, selectedRating, selectedYear, genresRequest>>
  /\ UNCHANGED exceptList

\* fetchMovies catch block
MoviesFailed(f) ==
  /\ fetches[f].status = "pending"
  /\ fetches' = [fetches EXCEPT ![f].status = "rejected"]
  /\ listState' = fetchMovies_catch(listState)
  /\ UNCHANGED <<utcOffset, version, search, selectedGenres, selectedRating, selectedYear, genresRequest>>
  /\ UNCHANGED exceptList

\* Pagination: the Previous button
PreviousPage ==
  /\ Rendered
  /\ listState.totalPages > 1
  /\ listState.page # 1
  /\ RunFetchEffect([listState EXCEPT !.page = @ - 1], search, TRUE)
  /\ UNCHANGED <<utcOffset, version, search, selectedGenres, selectedRating, selectedYear, genresRequest>>
  /\ UNCHANGED exceptList

\* Pagination: the Next button
NextPage ==
  /\ Rendered
  /\ listState.totalPages > 1
  /\ listState.page # listState.totalPages
  /\ RunFetchEffect([listState EXCEPT !.page = @ + 1], search, TRUE)
  /\ UNCHANGED <<utcOffset, version, search, selectedGenres, selectedRating, selectedYear, genresRequest>>
  /\ UNCHANGED exceptList

\* handleSearch of the list view, text being searchQuery.trim()
handleSearch(text) ==
  /\ Rendered
  /\ LET param == IF text # "" THEN text ELSE Null
         ls == IF version = "chips"
               THEN [listState EXCEPT !.page = 1, !.activeFilters = <<>>]
               ELSE [listState EXCEPT !.page = 1]
     IN  /\ search' = param
         /\ RunFetchEffect(ls, param, param # search \/ listState.page # 1)
  /\ UNCHANGED <<utcOffset, version, selectedGenres, selectedRating, selectedYear, genresRequest>>
  /\ UNCHANGED exceptList

\* Navbar.handleSearch: navigate(`/movies?search=...`) when the text is not blank
NavbarSearch(text) ==
  /\ fetches # <<>>
  /\ text # ""
  /\ search' = text
  /\ RunFetchEffect(listState, text, text # search)
  /\ UNCHANGED <<utcOffset, version, selectedGenres, selectedRating, selectedYear, genresRequest>>
  /\ UNCHANGED exceptList

\* Variant of the toggle that appends the genre whether or not it is selected
toggledGenres_append(prev, genreId) == Append(prev, genreId)

\* prev.includes(genreId) ? prev.filter(id => id !== genreId) : [...prev, genreId]
toggledGenres(prev, genreId) ==
  IF genreId \in SeqRange(prev)
  THEN SeqFilter(prev, SeqRange(prev) \ {genreId})
  ELSE Append(prev, genreId)

\* toggleGenre (first implementation): a genre button of the filter panel
toggleGenre(genreId) ==
  /\ Rendered
  /\ version = "selected"
  /\ genreId \in GenreIds(listState.genres)
  /\ selectedGenres' = toggledGenres(selectedGenres, genreId)
  /\ UNCHANGED <<utcOffset, version, listState, search, selectedRating, selectedYear, fetches, genresRequest>>
  /\ UNCHANGED exceptList

\* setSelectedRating (first implementation)
setSelectedRating(rating) ==
  /\ Rendered
  /\ version = "selected"
  /\ selectedRating' = rating
  /\ UNCHANGED <<utcOffset, version, listState, search, selectedGenres, selectedYear, fetches, genresRequest>>
  /\ UNCHANGED exceptList

\* setSelectedYear (first implementation)
setSelectedYear(year) ==
  /\ Rendered
  /\ version = "selected"
  /\ selectedYear' = year
  /\ UNCHANGED <<utcOffset, version, listState, search, selectedGenres, selectedRating, fetches, genresRequest>>
  /\ UNCHANGED exceptList

\* The chips the filter panel renders
OfferedChips ==
  { GenreChip(g) : g \in GenreIds(listState.genres) }
    \cup { RatingChip(r) : r \in Ratings } \cup { YearChip(y) : y \in Years }

\* isActive ? prev.activeFilters.filter(f => f.id !== chip.id)
\*          : [...prev.activeFilters, chip]
toggledFilters(activeFilters, chip) ==
  LET isActive == \E k \in 1..Len(activeFilters) : activeFilters[k].id = chip.id
  IN  IF isActive
      THEN SeqFilter(activeFilters, { f \in SeqRange(activeFilters) : f.id # chip.id })
      ELSE Append(activeFilters, chip)

\* toggleFilter (chip implementation)
toggleFilter(chip) ==
  /\ Rendered
  /\ version = "chips"
  /\ chip \in OfferedChips
  /\ listState' = [listState EXCEPT !.activeFilters = toggledFilters(@, chip)]
  /\ UNCHANGED <<utcOffset, version, search, selectedGenres, selectedRating, selectedYear, fetches, genresRequest>>
  /\ UNCHANGED exceptList

\* clearFilters of either implementation
clearFilters ==
  /\ Rendered
  /\ IF version = "selected"
     THEN /\ selectedGenres' = <<>>
          /\ selectedRating' = 0
          /\ selectedYear' = 0
          /\ UNCHANGED listState
     ELSE /\ listState' = [listState EXCEPT !.activeFilters = <<>>]
          /\ UNCHANGED <<selectedGenres, selectedRating, selectedYear>>
  /\ UNCHANGED <<utcOffset, version, search, fetches, genresRequest>>
  /\ UNCHANGED exceptList

AllChips ==
  { GenreChip(g) : g \in GenreIds(GenreCatalog) }
    \cup { RatingChip(r) : r \in Ratings } \cup { YearChip(y) : y \in Years }

NextList ==
  \/ ListMount
  \/ ListGenresFetched
  \/ ListGenresFailed
  \/ \E f \in 1..Len(fetches), results \in ResultLists, total_pages \in TotalPages :
        MoviesFetched(f, results, total_pages)
  \/ \E f \in 1..Len(fetches) : MoviesFailed(f)
  \/ PreviousPage
  \/ NextPage
  \/ \E text \in SearchInputs : handleSearch(text)
  \/ \E text \in SearchInputs : NavbarSearch(text)
  \/ \E genreId \in GenreIds(GenreCatalog) : toggleGenre(genreId)
  \/ \E rating \in Ratings : setSelectedRating(rating)
  \/ \E year \in Years : setSelectedYear(year)
  \/ \E chip \in AllChips : toggleFilter(chip)
  \/ clearFilters

(***************************************************************************)
(* PART 5 - Coming Soon view (ComingSoon.tsx)                              *)
(***************************************************************************)

\* Largest total_pages the remote source reports for the upcoming list
MaxUpcomingPages == 3

\* The results arrays an upcoming response can carry (movie ids)
UpcomingLists == { <<>>, <<1>>, <<2, 3>> }

\* Variant of the list update that replaces the displayed list
appendResults_replace(prevMovies, results) == results

\* setMovies(prevMovies => [...prevMovies, ...data.results])
appendResults(prevMovies, results) == prevMovies \o results

\* useState initial values; no effect has run
SoonIdle ==
  /\ soonMovies = <<>>
  /\ soonLoading = TRUE
  /\ soonError = Null
  /\ soonPage = 1
  /\ soonTotalPages = 1
  /\ soonRequests = <<>>

\* The effect of [page]: fetchUpcomingMovies up to its await
fetchUpcomingMovies_start(requestedPage) ==
  /\ soonLoading' = TRUE
  /\ soonRequests' = Append(soonRequests,
                            [page |-> requestedPage, status |-> "pending", results |-> <<>>])

\* Mount: the effect runs for page 1
SoonMount ==
  /\ soonRequests = <<>>
  /\ fetchUpcomingMovies_start(soonPage)
  /\ UNCHANGED <<soonMovies, soonError, soonPage, soonTotalPages>>
  /\ UNCHANGED exceptSoon

\* fetchUpcomingMovies after its await: results appended, totalPages stored,
\* finally setLoading(false)
UpcomingFetched(r, results, total_pages) ==
  /\ soonRequests[r].status = "pending"
  /\ soonRequests' = [soonRequests EXCEPT ![r].status = "fulfilled", ![r].results = results]
  /\ soonMovies' = appendResults(soonMovies, results)
  /\ soonTotalPages' = total_pages
  /\ soonLoading' = FALSE
  /\ UNCHANGED <<soonError, soonPage>>
  /\ UNCHANGED exceptSoon

\* fetchUpcomingMovies catch block, finally setLoading(false)
UpcomingFailed(r) ==
  /\ soonRequests[r].status = "pending"
  /\ soonRequests' = [soonRequests EXCEPT ![r].status = "rejected"]
  /\ soonError' = "Failed to fetch upcoming movies. Please try again later."
  /\ soonLoading' = FALSE
  /\ UNCHANGED <<soonMovies, soonPage, soonTotalPages>>
  /\ UNCHANGED exceptSoon

\* The Load More button is rendered
LoadMoreShown == soonError = Null /\ ~soonLoading /\ soonPage < soonTotalPages

\* loadMore: setPage(prev => prev + 1), then the effect of [page] runs
loadMore ==
  /\ LoadMoreShown
  /\ soonPage < soonTotalPages
  /\ soonPage' = soonPage + 1
  /\ fetchUpcomingMovies_start(soonPage + 1)
  /\ UNCHANGED <<soonMovies, soonError, soonTotalPages>>
  /\ UNCHANGED exceptSoon

NextSoon ==
  \/ SoonMount
  \/ \E r \in 1..Len(soonRequests), results \in UpcomingLists, total_pages \in 1..MaxUpcomingPages :
        UpcomingFetched(r, results, total_pages)
  \/ \E r \in 1..Len(soonRequests) : UpcomingFailed(r)
  \/ loadMore

(***************************************************************************)
(* PART 6 - shaping of responses: genre resolution and list truncation     *)
(***************************************************************************)

\* Length of the genre_ids array of a list entry
MaxGenreIds == 2

\* Length of the cast / similar / recommendations lists a response carries
MaxReturned == 11

\* The genre_ids arrays of a list entry; the ids 3 and 4 are in no catalog
GenreIdLists == UNION { [1..n -> {1, 2, 3, 4}] : n \in 0..MaxGenreIds }

\* The genre lists a genre response can carry
Catalogs ==
  { <<>>, GenreCatalog,
    <<[id |-> 2, name |-> "Drama"]>>,
    <<[id |-> 2, name |-> "Drama"], [id |-> 1, name |-> "Action"]>> }

\* A list of n entries as returned by the remote source: entry k is named k
ReturnedList(n) == [k \in 1..n |-> k]

\* Variant of slice that also keeps the entry at index `end`
slice_inclusive(arr, start, end) == SubSeq(arr, start + 1, Min(end + 1, Len(arr)))

\* Array.prototype.slice(start, end), 0 <= start <= end
slice(arr, start, end) == SubSeq(arr, start + 1, Min(end, Len(arr)))

\* credits.cast.slice(0, 10)
castPreview(cast) == slice(cast, 0, 10)

\* similarMoviesData.results.slice(0, 6) / recommendationsData.results.slice(0, 6)
relatedPreview(results) == slice(results, 0, 6)

\* Home.addGenresToMovie: genre_ids.map(id => genresData.genres.find(...)).filter(Boolean)
addGenresToMovie(movie, genres) ==
  [genre_ids |-> movie.genre_ids, genres |-> resolveGenres(movie.genre_ids, genres)]

\* What a handler received, and what it stored
Returned(genre_ids, genres, cast, similar, recommendations) ==
  [genre_ids |-> genre_ids, catalog |-> genres, cast |-> cast,
   similar |-> similar, recommendations |-> recommendations]

Stored(genres, cast, similar, recommendations) ==
  [genres |-> genres, cast |-> cast, similar |-> similar, recommendations |-> recommendations]

\* No handler has run. The handlers are stateless: each behaviour follows
\* the shaping of one response (and, for the two-phase load, of its
\* secondary response).
ShapeIdle ==
  /\ shapeOp = "none"
  /\ shapeReturned = Returned(<<>>, <<>>, <<>>, <<>>, <<>>)
  /\ shapeStored = Stored(<<>>, <<>>, <<>>, <<>>)

\* MovieList (chips) fetchMovies: one entry of moviesWithGenres
ShapeListEntry(genre_ids, genres) ==
  /\ shapeOp = "none"
  /\ shapeOp' = "moviesWithGenres"
  /\ shapeReturned' = Returned(genre_ids, genres, <<>>, <<>>, <<>>)
  /\ shapeStored' =
       Stored(moviesWithGenres(<<[id |-> 1, genre_ids |-> genre_ids, vote_average |-> 80,
                                  release_date |-> 0]>>, genres)[1].genres,
              <<>>, <<>>, <<>>)
  /\ UNCHANGED exceptShape

\* Home.fetchData: one entry shaped by addGenresToMovie
ShapeHomeEntry(genre_ids, genres) ==
  /\ shapeOp = "none"
  /\ shapeOp' = "addGenresToMovie"
  /\ shapeReturned' = Returned(genre_ids, genres, <<>>, <<>>, <<>>)
  /\ shapeStored' =
       Stored(addGenresToMovie([genre_ids |-> genre_ids], genres).genres, <<>>, <<>>, <<>>)
  /\ UNCHANGED exceptShape

\* MovieDetails.fetchMovieData: the setState after Promise.all
StoreMovieData(castLen, similarLen, recommendationsLen) ==
  /\ shapeOp = "none"
  /\ shapeOp' = "fetchMovieData"
  /\ shapeReturned' = Returned(<<>>, <<>>, ReturnedList(castLen), ReturnedList(similarLen),
                               ReturnedList(recommendationsLen))
  /\ shapeStored' = Stored(<<>>, castPreview(ReturnedList(castLen)),
                           relatedPreview(ReturnedList(similarLen)),
                           relatedPreview(ReturnedList(recommendationsLen)))
  /\ UNCHANGED exceptShape

\* Two-phase fetchMovieDetails: the primary setState (the details response
\* carries no similar / recommendations lists)
StoreMovieDetails(castLen) ==
  /\ shapeOp = "none"
  /\ shapeOp' = "fetchMovieDetails"
  /\ shapeReturned' = Returned(<<>>, <<>>, ReturnedList(castLen), <<>>, <<>>)
  /\ shapeStored' = Stored(<<>>, castPreview(ReturnedList(castLen)), <<>>, <<>>)
  /\ UNCHANGED exceptShape

\* Two-phase loadExtraData: the secondary setState keeps the stored cast
StoreExtraData(similarLen, recommendationsLen) ==
  /\ shapeOp = "fetchMovieDetails"
  /\ shapeOp' = "loadExtraData"
  /\ shapeReturned' = [shapeReturned EXCEPT !.similar = ReturnedList(similarLen),
                                            !.recommendations = ReturnedList(recommendationsLen)]
  /\ shapeStored' = [shapeStored EXCEPT !.similar = relatedPreview(ReturnedList(similarLen)),
                                        !.recommendations =
                                           relatedPreview(ReturnedList(recommendationsLen))]
  /\ UNCHANGED exceptShape

\* The image paths a response can carry: absent (null, undefined, '') or not
ImagePaths == {Null, Undefined, "", "/poster.jpg", "/backdrop.jpg"}

\* The size argument: omitted, 'w500' or 'original'
ImageSizes == {Undefined, "w500", "original"}

\* Variant of getImageUrl that treats only null as an absent path
getImageUrl_nullOnly(path, size) ==
  IF path = Null THEN <<"/placeholder-image.jpg">>
  ELSE <<"https://image.tmdb.org/t/p/", IF size = Undefined THEN "w500" ELSE size, path>>

\* getImageUrl(path, size = 'w500'): the URL as the sequence of its parts
getImageUrl(path, size) ==
  IF path \in {Null, Undefined, ""} THEN <<"/placeholder-image.jpg">>
  ELSE <<"https://image.tmdb.org/t/p/", IF size = Undefined THEN "w500" ELSE size, path>>

\* A view renders an image through getImageUrl(path, size)
RenderImage(path, size) ==
  /\ shapeOp = "none"
  /\ shapeOp' = "getImageUrl"
  /\ shapeReturned' = [path |-> path, size |-> size]
  /\ shapeStored' = [src |-> getImageUrl(path, size)]
  /\ UNCHANGED exceptShape

\* ActorDetails: getImageUrl(movies[0]?.backdrop_path || '', 'original')
RenderBackdrop(backdrop_path) ==
  /\ shapeOp = "none"
  /\ shapeOp' = "backdrop"
  /\ shapeReturned' = [path |-> backdrop_path, size |-> "original"]
  /\ shapeStored' =
       [src |-> getImageUrl(IF backdrop_path \in {Null, Undefined, ""} THEN "" ELSE backdrop_path,
                            "original")]
  /\ UNCHANGED exceptShape

NextShape ==
  \/ \E path \in ImagePaths, size \in ImageSizes : RenderImage(path, size)
  \/ \E backdrop_path \in ImagePaths : RenderBackdrop(backdrop_path)
  \/ \E genre_ids \in GenreIdLists, genres \in Catalogs : ShapeListEntry(genre_ids, genres)
  \/ \E genre_ids \in GenreIdLists, genres \in Catalogs : ShapeHomeEntry(genre_ids, genres)
  \/ \E castLen, similarLen, recommendationsLen \in 0..MaxReturned :
        StoreMovieData(castLen, similarLen, recommendationsLen)
  \/ \E castLen \in 0..MaxReturned : StoreMovieDetails(castLen)
  \/ \E similarLen, recommendationsLen \in 0..MaxReturned :
        StoreExtraData(similarLen, recommendationsLen)

(***************************************************************************)
(* PART 4 - ActorProfile filmography: search filter and sort                *)
(***************************************************************************)

\* Length of the cast list of a movie_credits response
MaxCredits == 3

\* type SortOption
SortOptions == {"year-desc", "year-asc", "rating-desc", "rating-asc"}

\* Strings are sequences of characters
Dune == <<"D", "u", "n", "e">>

DunePartTwo == <<"D", "u", "n", "e", " ", "P", "a", "r", "t", " ", "T", "w", "o">>

\* Cast entries of the remote source. release_date 0 is the empty string
\* (no date); dates are day numbers. vote_average is in tenths.
\* poster_path FALSE is null.
CreditPool ==
  { [id |-> 1, title |-> Dune, character |-> <<"P", "a", "u", "l">>,
     release_date |-> 2021, vote_average |-> 80, poster_path |-> TRUE],
    [id |-> 2, title |-> DunePartTwo, character |-> <<"P", "a", "u", "l">>,
     release_date |-> 2024, vote_average |-> 83, poster_path |-> TRUE],
    [id |-> 3, title |-> <<"U", "p">>, character |-> <<"D", "U", "G">>,
     release_date |-> 2021, vote_average |-> 83, poster_path |-> TRUE],
    [id |-> 4, title |-> <<"T", "b", "a">>, character |-> <<>>,
     release_date |-> 0, vote_average |-> 80, poster_path |-> TRUE],
    [id |-> 5, title |-> <<"d", "u", "o">>, character |-> <<"x">>,
     release_date |-> 0, vote_average |-> 70, poster_path |-> TRUE],
    [id |-> 6, title |-> <<"N", "o", "p", "e">>, character |-> <<"O", "J">>,
     release_date |-> 2020, vote_average |-> 70, poster_path |-> FALSE] }

\* The cast lists a response can carry: entries in any order, each once
CastLists ==
  UNION { { c \in [1..n -> CreditPool] : \A i, j \in 1..n : i # j => c[i] # c[j] }
          : n \in 0..MaxCredits }

\* Texts typed into the search box
SearchTexts ==
  { <<>>, <<"d", "u", "n">>, <<"D", "U">>, <<"p", "a", "u", "l">>, <<"z">> }

\* ---- String.prototype.toLowerCase / includes ----
UpperChars == <<"D", "G", "J", "N", "O", "P", "T", "U">>

LowerChars == <<"d", "g", "j", "n", "o", "p", "t", "u">>

CharToLowerCase(c) ==
  IF \E k \in 1..Len(UpperChars) : UpperChars[k] = c
  THEN LowerChars[CHOOSE k \in 1..Len(UpperChars) : UpperChars[k] = c]
  ELSE c

toLowerCase(s) == [k \in 1..Len(s) |-> CharToLowerCase(s[k])]

\* s.includes(q): q occurs in s as a contiguous substring
includes(s, q) ==
  \E k \in 0..(Len(s) - Len(q)) : SubSeq(s, k + 1, k + Len(q)) = q

\* new Date(release_date || '').getTime(): NaN for the empty string
getTime(release_date) == IF release_date = 0 THEN NaN ELSE Num(release_date)

Minus(x, y) == IF x.nan \/ y.nan THEN NaN ELSE Num(x.v - y.v)

\* Variant of the load comparator that does not test for a missing date
LoadCompare_noSink(a, b) == Minus(getTime(b.release_date), getTime(a.release_date))

\* The comparator of the sort in fetchActorData: missing dates last,
\* newest first
LoadCompare(a, b) ==
  IF a.release_date = 0 THEN Num(1)
  ELSE IF b.release_date = 0 THEN Num(-1)
  ELSE Minus(getTime(b.release_date), getTime(a.release_date))

\* Variant of the comparator that never reports a tie
SortByCompare_noTie(option, a, b) ==
  CASE option = "year-desc" ->
         Minus(getTime(b.release_date), getTime(a.release_date))
    [] option = "year-asc" ->
         Minus(getTime(a.release_date), getTime(b.release_date))
    [] option = "rating-desc" ->
         IF b.vote_average > a.vote_average THEN Num(1) ELSE Num(-1)
    [] option = "rating-asc" ->
         IF a.vote_average > b.vote_average THEN Num(1) ELSE Num(-1)
    [] OTHER -> Num(0)

\* The comparator of sortedAndFilteredMovies: switch (sortBy)
SortByCompare(option, a, b) ==
  CASE option = "year-desc" ->
         Minus(getTime(b.release_date), getTime(a.release_date))
    [] option = "year-asc" ->
         Minus(getTime(a.release_date), getTime(b.release_date))
    [] option = "rating-desc" -> Num(b.vote_average - a.vote_average)
    [] option = "rating-asc" -> Num(a.vote_average - b.vote_average)
    [] OTHER -> Num(0)

Comparator(key, a, b) ==
  IF key = "load" THEN LoadCompare(a, b) ELSE SortByCompare(key, a, b)

\* ---- Array.prototype.sort, as the V8 engine sorts an array shorter than
\* ---- 64 elements: one initial run, then binary insertion
\* The comparator's result converted to a number; NaN counts as +0
CallCompare(key, x, y) ==
  LET v == Comparator(key, x, y) IN IF v.nan THEN 0 ELSE v.v

RECURSIVE RunEnd(_, _, _, _)
\* The last index of the run that starts at index 1 and reaches idx - 1
RunEnd(key, arr, isDescending, idx) ==
  IF idx > Len(arr) THEN idx - 1
  ELSE LET order == CallCompare(key, arr[idx], arr[idx - 1])
       IN  IF (isDescending /\ order >= 0) \/ (~isDescending /\ order < 0)
           THEN idx - 1
           ELSE RunEnd(key, arr, isDescending, idx + 1)

ReverseRange(arr, n) ==
  [k \in 1..Len(arr) |-> IF k <= n THEN arr[n + 1 - k] ELSE arr[k]]

\* CountAndMakeRun: the length of the initial run and the array with a
\* strictly descending run reversed
CountAndMakeRun(key, arr) ==
  LET isDescending == CallCompare(key, arr[2], arr[1]) < 0
      runLength == RunEnd(key, arr, isDescending, 3)
  IN  [runLength |-> runLength,
       array |-> IF isDescending THEN ReverseRange(arr, runLength) ELSE arr]

RECURSIVE BinarySearch(_, _, _, _, _)
\* The index at which pivot is inserted into the sorted range [left, right)
BinarySearch(key, arr, pivot, left, right) ==
  IF left < right
  THEN LET mid == left + ((right - left) \div 2)
       IN  IF CallCompare(key, pivot, arr[mid]) < 0
           THEN BinarySearch(key, arr, pivot, left, mid)
           ELSE BinarySearch(key, arr, pivot, mid + 1, right)
  ELSE left

\* Move the element at index start to index pos <= start
MoveTo(arr, start, pos) ==
  [k \in 1..Len(arr) |->
     IF k < pos \/ k > start THEN arr[k]
     ELSE IF k = pos THEN arr[start]
     ELSE arr[k - 1]]

RECURSIVE BinaryInsertionSort(_, _, _)
\* Insert the elements at start .. Len(arr) into the sorted prefix
BinaryInsertionSort(key, arr, start) ==
  IF start > Len(arr) THEN arr
  ELSE BinaryInsertionSort(key,
         MoveTo(arr, start, BinarySearch(key, arr, arr[start], 1, start)),
         start + 1)

ArraySort(key, arr) ==
  IF Len(arr) < 2 THEN arr
  ELSE LET run == CountAndMakeRun(key, arr)
       IN  BinaryInsertionSort(key, run.array, run.runLength + 1)

\* Array.prototype.filter
RECURSIVE ArrayFilter(_, _)
ArrayFilter(arr, keep) ==
  IF arr = <<>> THEN <<>>
  ELSE IF Head(arr).id \in keep
       THEN <<Head(arr)>> \o ArrayFilter(Tail(arr), keep)
       ELSE ArrayFilter(Tail(arr), keep)

\* creditsData.cast.sort(...).filter(movie => movie.poster_path)
sortedMovies(cast) ==
  LET sorted == ArraySort("load", cast)
  IN  ArrayFilter(sorted, { sorted[k].id : k \in { i \in 1..Len(sorted) : sorted[i].poster_path } })

\* Variant of the search predicate that lower-cases the texts but not the query
SearchMatch_rawQuery(movie, query) ==
  \/ includes(toLowerCase(movie.title), query)
  \/ includes(toLowerCase(movie.character), query)

\* The predicate of movies.filter(...) under `if (searchQuery)`
SearchMatch(movie, query) ==
  \/ includes(toLowerCase(movie.title), toLowerCase(query))
  \/ includes(toLowerCase(movie.character), toLowerCase(query))

\* let filtered = movies; if (searchQuery) filtered = movies.filter(...)
filtered(list, query) ==
  IF query # <<>>
  THEN ArrayFilter(list, { list[k].id : k \in { i \in 1..Len(list) : SearchMatch(list[i], query) } })
  ELSE list

\* The useMemo value: [...filtered].sort(comparator of sortBy)
sortedAndFilteredMovies == ArraySort(sortBy, filtered(movies, searchQuery))

\* useState initial values of ActorProfile
FilmIdle ==
  /\ movies = <<>>
  /\ sortBy = "year-desc"
  /\ searchQuery = <<>>

\* fetchActorData succeeded with the cast list of the response: setMovies
CreditsLoaded(cast) ==
  /\ movies' = sortedMovies(cast)
  /\ UNCHANGED <<sortBy, searchQuery>>
  /\ UNCHANGED exceptFilm

\* onChange of the sort select
setSortBy(option) ==
  /\ sortBy' = option
  /\ UNCHANGED <<movies, searchQuery>>
  /\ UNCHANGED exceptFilm

\* onChange of the search input
setSearchQuery(text) ==
  /\ searchQuery' = text
  /\ UNCHANGED <<movies, sortBy>>
  /\ UNCHANGED exceptFilm

NextFilm ==
  \/ \E cast \in CastLists : CreditsLoaded(cast)
  \/ \E option \in SortOptions : setSortBy(option)
  \/ \E text \in SearchTexts : setSearchQuery(text)

(***************************************************************************)
(* PART 7 - diagnostic logging of the API client (tmdb.ts interceptors)    *)
(***************************************************************************)

\* Length of the route parameter placed in a request URL, in tokens
MaxIdLen == 5

\* A URL is a sequence of tokens: the credential parameter name "api_key=",
\* the credential value, the separator "&", and any other text without "&"
KeyParam == "api_key="

\* The value of TMDB_API_KEY as it appears in a URL
Secret == "TMDB_API_KEY"

\* The route parameter `id` of /movie/:id and /actor/:id as useParams returns
\* it (decoded text of the path segment); the credential value occurs in it
\* only as the value of a credential parameter
RouteIds ==
  { id \in UNION { [1..n -> {KeyParam, Secret, "&", "text"}] : n \in 0..MaxIdLen } :
      \A i \in 1..Len(id) : id[i] = Secret => (i > 1 /\ id[i - 1] = KeyParam) }

\* `/movie/${id}`: the URL handed to tmdbApi.get
requestUrl(id) == <<"/movie/">> \o id

\* Start of the first match of /api_key=[^&]+/ in url, 0 if there is none
matchStart(url) ==
  LET starts == { i \in 1..(Len(url) - 1) : url[i] = KeyParam /\ url[i + 1] # "&" }
  IN  IF starts = {} THEN 0 ELSE CHOOSE i \in starts : \A k \in starts : i <= k

\* End of the match that starts at i: [^&]+ is greedy up to the next "&"
matchEnd(url, i) ==
  CHOOSE j \in (i + 1)..Len(url) :
    /\ \A k \in (i + 1)..j : url[k] # "&"
    /\ (j = Len(url) \/ url[j + 1] = "&")

\* url?.replace(/api_key=[^&]+/, 'api_key=HIDDEN'): the pattern has no g
\* flag, so the first match only is replaced
sanitize(url) ==
  LET i == matchStart(url)
  IN  IF i = 0 THEN url
      ELSE SubSeq(url, 1, i - 1) \o <<KeyParam, "HIDDEN">>
             \o SubSeq(url, matchEnd(url, i) + 1, Len(url))

\* A line of the console
LogLine(label, url) == [label |-> label, url |-> sanitize(url)]

\* No request has been logged
LogIdle ==
  /\ logPc = "idle"
  /\ logUrl = <<>>
  /\ console = <<>>

\* Request interceptor: console.log('API Request:', sanitizedUrl)
LogRequest(id) ==
  /\ logPc = "idle"
  /\ logPc' = "sent"
  /\ logUrl' = requestUrl(id)
  /\ console' = Append(console, LogLine("API Request:", requestUrl(id)))
  /\ UNCHANGED exceptLog

\* Response interceptor, success: console.log('API Response:', status, url)
LogResponse ==
  /\ logPc = "sent"
  /\ logPc' = "done"
  /\ console' = Append(console, LogLine("API Response:", logUrl))
  /\ UNCHANGED logUrl
  /\ UNCHANGED exceptLog

\* Response interceptor, error: console.error('API Error:', {url, ...})
LogError ==
  /\ logPc = "sent"
  /\ logPc' = "done"
  /\ console' = Append(console, LogLine("API Error:", logUrl))
  /\ UNCHANGED logUrl
  /\ UNCHANGED exceptLog

NextLog ==
  \/ \E id \in RouteIds : LogRequest(id)
  \/ LogResponse
  \/ LogError

(***************************************************************************)
(* Specifications                                                          *)
(***************************************************************************)

\* The bundle about to be evaluated, with or without a credential
InitApi ==
  /\ \E key \in Credentials : ApiStart(key, "unevaluated")
  /\ FanIdle
  /\ FilmIdle
  /\ ListIdle
  /\ SoonIdle
  /\ ShapeIdle
  /\ LogIdle

SpecApi == InitApi /\ [][NextApi]_vars

\* One of the views mounted with its useState initial value
InitFan ==
  /\ view \in Pages
  /\ state = InitialState
  /\ loads = <<>>
  /\ ApiIdle
  /\ FilmIdle
  /\ ListIdle
  /\ SoonIdle
  /\ ShapeIdle
  /\ LogIdle

SpecFan == InitFan /\ [][NextFan]_vars

\* The ActorProfile view mounted: no credits yet, 'year-desc', empty search
InitFilm ==
  /\ FilmIdle
  /\ ApiIdle
  /\ FanIdle
  /\ ListIdle
  /\ SoonIdle
  /\ ShapeIdle
  /\ LogIdle

SpecFilm == InitFilm /\ [][NextFilm]_vars

\* One of the two list implementations about to mount at /movies
InitList ==
  /\ version \in Versions
  /\ listState = InitialListState
  /\ search = Null
  /\ selectedGenres = <<>>
  /\ selectedRating = 0
  /\ selectedYear = 0
  /\ fetches = <<>>
  /\ genresRequest = "idle"
  /\ utcOffset \in UtcOffsets
  /\ ApiIdle
  /\ FanIdle
  /\ FilmIdle
  /\ SoonIdle
  /\ ShapeIdle
  /\ LogIdle

SpecList == InitList /\ [][NextList]_vars

\* The Coming Soon view about to mount
InitSoon ==
  /\ SoonIdle
  /\ ShapeIdle
  /\ LogIdle
  /\ ApiIdle
  /\ FanIdle
  /\ FilmIdle
  /\ ListIdle

SpecSoon == InitSoon /\ [][NextSoon]_vars

\* No response has been shaped yet
InitShape ==
  /\ ShapeIdle
  /\ LogIdle
  /\ ApiIdle
  /\ FanIdle
  /\ FilmIdle
  /\ ListIdle
  /\ SoonIdle

SpecShape == InitShape /\ [][NextShape]_vars

\* The API client before its first logged request; the views idle
InitLog ==
  /\ ApiIdle
  /\ FanIdle
  /\ FilmIdle
  /\ ListIdle
  /\ SoonIdle
  /\ ShapeIdle
  /\ LogIdle

SpecLog == InitLog /\ [][NextLog]_vars

\* ---- loading of the routed views, with the requests eventually settling ----

\* One routed view about to mount: a view of Pages, one of the two list
\* implementations, or the Coming Soon view. The variables of the views
\* that are not mounted keep their idle values.
InitLoading ==
  /\ view \in Pages
  /\ state = InitialState
  /\ loads = <<>>
  /\ version \in Versions
  /\ view = "Home" \/ version = "selected"
  /\ listState = InitialListState
  /\ search = Null
  /\ selectedGenres = <<>>
  /\ selectedRating = 0
  /\ selectedYear = 0
  /\ fetches = <<>>
  /\ genresRequest = "idle"
  /\ utcOffset = 60
  /\ ApiIdle
  /\ FilmIdle
  /\ SoonIdle
  /\ ShapeIdle
  /\ LogIdle

\* The steps of the movie list that start or settle a request
ListLoadStep ==
  \/ ListMount
  \/ ListGenresFetched
  \/ ListGenresFailed
  \/ \E f \in 1..Len(fetches), results \in ResultLists, total_pages \in TotalPages :
        MoviesFetched(f, results, total_pages)
  \/ \E f \in 1..Len(fetches) : MoviesFailed(f)
  \/ PreviousPage
  \/ NextPage
  \/ \E text \in SearchInputs : handleSearch(text)
  \/ \E text \in SearchInputs : NavbarSearch(text)

\* <Routes> renders one view: a view takes steps while the others are idle
NextLoading ==
  \/ ListIdle /\ SoonIdle /\ NextFan
  \/ FanIdle /\ SoonIdle /\ ListLoadStep
  \/ FanIdle /\ ListIdle /\ NextSoon

\* An outstanding request of the mounted view settles
SettleStep ==
  \/ \E l \in Loads :
        \/ TestConnectionOk(l) \/ TestConnectionFailed(l)
        \/ \E hasGenres \in BOOLEAN : GenresFetched(l, hasGenres)
        \/ GenresFailed(l)
        \/ \E hasImages \in BOOLEAN, anyGenreId \in BOOLEAN : CallFulfilled(l, hasImages, anyGenreId)
        \/ CallRejected(l)
        \/ ImagesFulfilled(l) \/ ImagesRejected(l)
        \/ SecondaryFulfilled(l) \/ SecondaryRejected(l)
  \/ \E f \in 1..Len(fetches) :
        \/ \E results \in ResultLists, total_pages \in TotalPages :
              MoviesFetched(f, results, total_pages)
        \/ MoviesFailed(f)
  \/ \E r \in 1..Len(soonRequests) :
        \/ \E results \in UpcomingLists, total_pages \in 1..MaxUpcomingPages :
              UpcomingFetched(r, results, total_pages)
        \/ UpcomingFailed(r)

\* Every issued request eventually settles
SpecLoading == InitLoading /\ [][NextLoading]_vars /\ WF_vars(SettleStep)

(***************************************************************************)
(* Properties                                                              *)
(***************************************************************************)

\* A failed call has reached the caller
CallerReceivedError == apiPc = "returned" /\ ~apiReceived.ok

\* C1: for every catalog service function and every failure kind, the
\* error the caller receives has the kind and the status code of the error
\* the API client raised.
C1_KindPreserved ==
  CallerReceivedError =>
    /\ apiReceived.error.errorType = apiRaised.errorType
    /\ apiReceived.error.statusCode = apiRaised.statusCode

\* The classification of 401, 404, 429 and of a request without response
ClassifiesNamedOutcomes(o, e) ==
  /\ ~o.response => e.errorType = "NETWORK_ERROR"
  /\ (o.response /\ o.status = 401) => e.errorType = "AUTHENTICATION"
  /\ (o.response /\ o.status = 404) => e.errorType = "NOT_FOUND"
  /\ (o.response /\ o.status = 429) => e.errorType = "RATE_LIMIT"

IsUnknownCarrying(o, e) ==
  /\ e.errorType = "UNKNOWN"
  /\ e.statusCode = o.status
  /\ e.response = o.data

\* C2 as stated: 401 -> Unauthorized, 404 -> NotFound, 429 -> RateLimited,
\* no response -> NetworkError, and every other status with a response
\* surfaces Unknown carrying the raw status and body.
C2_AnyOtherStatusUnknown ==
  apiPc = "raised" =>
    /\ ClassifiesNamedOutcomes(apiOutcome, apiRaised)
    /\ (apiOutcome.response /\ apiOutcome.status \notin {401, 404, 429})
         => IsUnknownCarrying(apiOutcome, apiRaised)

\* C2 amended: 401 -> Unauthorized, 404 -> NotFound, 429 -> RateLimited,
\* no response -> NetworkError, and every other status outside 500..599
\* with a response surfaces Unknown carrying the raw status and body.
C2_Classification ==
  apiPc = "raised" =>
    /\ ClassifiesNamedOutcomes(apiOutcome, apiRaised)
    /\ (apiOutcome.response /\ apiOutcome.status \notin {401, 404, 429}
          /\ apiOutcome.status \notin 500..599)
         => IsUnknownCarrying(apiOutcome, apiRaised)

C2_Witness ==
  /\ apiPc = "raised"
  /\ apiOutcome.response
  /\ apiOutcome.status = 429
  /\ apiRaised.errorType = "RATE_LIMIT"

\* C3: every HTTP error response with a status in 500..599 is surfaced as
\* ServerError.
C3_ServerError5xx ==
  (apiPc = "raised" /\ apiOutcome.response /\ apiOutcome.status \in 500..599)
    => apiRaised.errorType = "SERVER_ERROR"

\* Load l takes a step
LoadStepped(l) == loads'[l] # loads[l]

\* The step stores the results of load l in the view state
StoresResultsOf(l) == state'.data = l /\ state.data # l

\* C4: when a call of a load's fan-out fails, the view is put in the failure
\* state (error set, loading false) and no result of that load is written
\* into the view state, at the failure, before it or after it, whatever the
\* other calls of the load do.
C4_FailureStep ==
  \A l \in DOMAIN loads :
    /\ (loads[l].rejected = 0 /\ loads'[l].rejected = 1)
         => /\ state'.error # Null
            /\ ~state'.loading
            /\ state'.data = state.data
            /\ state'.extra = state.extra
    /\ (loads[l].rejected > 0 /\ LoadStepped(l)) => state' = state
    /\ StoresResultsOf(l) => loads'[l].rejected = 0

C4_FailsAsAWhole == [][C4_FailureStep]_vars

C4_Witness ==
  /\ view \in {"MovieDetails", "ActorDetails", "Home"}
  /\ \E l \in DOMAIN loads :
       /\ loads[l].rejected = 1
       /\ loads[l].pending = 0
       /\ FanoutSize(view) > 1
       /\ state.error # Null
       /\ ~state.loading
       /\ state.data = 0

\* The step in which the view leaves the loading state through load l
LeavesLoadingBy(l) == state.loading /\ ~state'.loading /\ LoadStepped(l)

\* C5 as stated: when a load makes the view leave the loading state, with
\* data or with an error, no call of its fan-out is still outstanding.
C5_NoCallOutstandingStep ==
  \A l \in DOMAIN loads : LeavesLoadingBy(l) => loads'[l].pending = 0

C5_AmendedStep ==
  \A l \in DOMAIN loads :
    /\ StoresResultsOf(l) => (loads'[l].pending = 0 /\ loads'[l].rejected = 0)
    /\ (LeavesLoadingBy(l) /\ loads'[l].pending > 0)
         => (loads[l].rejected = 0 /\ loads'[l].rejected = 1 /\ state'.error # Null)

SecondaryOutstanding(l) == loads[l].stage = "secondary"

C6_LoadedWhileSecondaryOutstanding ==
  \A l \in DOMAIN loads :
    (SecondaryOutstanding(l) /\ l = Len(loads)) => (~state.loading /\ state.data # 0)

C6_Step ==
  \A l \in DOMAIN loads :
    /\ (loads'[l].secPending > loads[l].secPending)
         => /\ loads[l].stage \in {"fanout", "images"}
            /\ loads'[l].stage = "secondary"
            /\ loads'[l].pending = 0
            /\ loads'[l].rejected = 0
            /\ ~state'.loading
            /\ state'.data = l
    /\ (loads'[l].secRejected > loads[l].secRejected)
         => /\ state'.error = state.error
            /\ state'.loading = state.loading
            /\ state'.data = state.data

\* C6: the secondary fan-out (similar + recommended) is issued only after
\* the primary fan-in has succeeded; the view is in the loaded state (data
\* stored, loading false) from the moment the secondary fan-out is issued,
\* hence before it settles; a failure of the secondary fan-out leaves error,
\* loading and the primary data unchanged.
C6_TwoPhase == []C6_LoadedWhileSecondaryOutstanding /\ [][C6_Step]_vars

C6_Witness ==
  \E l \in DOMAIN loads :
    /\ loads[l].secRejected = 1
    /\ loads[l].stage = "done"
    /\ state.data = l
    /\ ~state.loading
    /\ state.error = Null

\* The position of the item with the given id in a list
\* The genres selected in the filter panel of either implementation
SelectedGenreIds ==
  IF version = "selected"
  THEN SeqRange(selectedGenres)
  ELSE { listState.activeFilters[k].value :
           k \in { i \in 1..Len(listState.activeFilters) :
                     listState.activeFilters[i].type = "genre" } }

\* Genres are the only active criteria
OnlyGenreCriteria ==
  /\ SelectedGenreIds # {}
  /\ IF version = "selected"
     THEN selectedRating = 0 /\ selectedYear = 0
     ELSE \A k \in 1..Len(listState.activeFilters) : listState.activeFilters[k].type = "genre"

\* C7: in the rendered list of either implementation, when genres are the
\* active criteria, a stored movie is shown if and only if its genre ids
\* include every selected genre (AND semantics)
C7_GenreFilterAnd ==
  (Rendered /\ OnlyGenreCriteria) =>
     \A k \in 1..Len(listState.movies) :
        (listState.movies[k] \in SeqRange(filteredMovies))
          <=> (SelectedGenreIds \subseteq SeqRange(listState.movies[k].genre_ids))

PositionOf(list, id) == CHOOSE k \in 1..Len(list) : list[k].id = id

IdsOf(list) == { list[k].id : k \in 1..Len(list) }

HasNoDate(movie) == movie.release_date = 0

\* C8: under both release-date sort keys every item without a release date
\* comes after every item with a release date in the sorted filmography.
C8_MissingDatesLast ==
  sortBy \in {"year-desc", "year-asc"} =>
    LET out == sortedAndFilteredMovies
    IN  \A i, j \in 1..Len(out) :
          (HasNoDate(out[i]) /\ ~HasNoDate(out[j])) => j < i

C8_Witness ==
  /\ sortBy = "year-asc"
  /\ \E i, j, k \in 1..Len(sortedAndFilteredMovies) :
       /\ HasNoDate(sortedAndFilteredMovies[k])
       /\ i < j
       /\ j < k
       /\ ~HasNoDate(sortedAndFilteredMovies[i])
       /\ sortedAndFilteredMovies[i].release_date < sortedAndFilteredMovies[j].release_date
  /\ sortedAndFilteredMovies # movies

\* The two items have equal values of the sort key
SameSortKey(option, a, b) ==
  IF option \in {"rating-desc", "rating-asc"}
  THEN a.vote_average = b.vote_average
  ELSE a.release_date = b.release_date

\* C9: for every sort key, two items with equal sort-key values are in the
\* sorted output in the same relative order as in the sort's input (and the
\* output holds exactly the input's items).
C9_StableSort ==
  LET input == filtered(movies, searchQuery)
      out == sortedAndFilteredMovies
  IN  /\ Len(out) = Len(input)
      /\ IdsOf(out) = IdsOf(input)
      /\ \A i, j \in 1..Len(input) :
           (i < j /\ SameSortKey(sortBy, input[i], input[j]))
             => PositionOf(out, input[i].id) < PositionOf(out, input[j].id)

C9_Witness ==
  /\ sortBy = "rating-desc"
  /\ Len(movies) = 3
  /\ sortedAndFilteredMovies # filtered(movies, searchQuery)
  /\ \E i, j \in 1..Len(movies) :
       /\ i < j
       /\ movies[i].vote_average = movies[j].vote_average
       /\ PositionOf(sortedAndFilteredMovies, movies[j].id)
            = PositionOf(sortedAndFilteredMovies, movies[i].id) + 1

\* Two characters are the same letter up to case
SameLetter(c, d) ==
  \/ c = d
  \/ \E k \in 1..Len(UpperChars) :
       {c, d} = {UpperChars[k], LowerChars[k]}

\* text contains query as a substring, compared case-insensitively
ContainsIgnoringCase(text, query) ==
  \E offset \in 0..(Len(text) - Len(query)) :
    \A k \in 1..Len(query) : SameLetter(text[offset + k], query[k])

MatchesSearch(movie) ==
  \/ ContainsIgnoringCase(movie.title, searchQuery)
  \/ ContainsIgnoringCase(movie.character, searchQuery)

\* C10: with a non-empty search text the filmography holds exactly the items
\* whose title or character name contains the text, compared
\* case-insensitively, each once; with an empty search text it holds every
\* item.
C10_SearchFilter ==
  LET out == sortedAndFilteredMovies
      expected == IF searchQuery = <<>>
                  THEN IdsOf(movies)
                  ELSE { movies[k].id : k \in { i \in 1..Len(movies) : MatchesSearch(movies[i]) } }
  IN  /\ IdsOf(out) = expected
      /\ Len(out) = Cardinality(expected)

C10_Witness ==
  /\ searchQuery = <<"D", "U">>
  /\ Len(movies) = 3
  /\ Len(sortedAndFilteredMovies) = 2
  /\ \E k \in 1..Len(sortedAndFilteredMovies) : sortedAndFilteredMovies[k].title = Dune
  /\ \E k \in 1..Len(sortedAndFilteredMovies) : sortedAndFilteredMovies[k].character = <<"D", "U", "G">>

(***************************************************************************)
(* Movie list: rating, year and empty criteria; page bounds                *)
(***************************************************************************)

\* The chip values of one type among the active filters
ChipValues(type) ==
  { listState.activeFilters[k].value :
      k \in { i \in 1..Len(listState.activeFilters) : listState.activeFilters[i].type = type } }

\* The minimum ratings selected in the filter panel of either implementation
SelectedRatings ==
  IF version = "selected"
  THEN IF selectedRating = 0 THEN {} ELSE {selectedRating}
  ELSE ChipValues("rating")

\* The release years selected in the filter panel of either implementation
SelectedYears ==
  IF version = "selected"
  THEN IF selectedYear = 0 THEN {} ELSE {selectedYear}
  ELSE ChipValues("year")

IsShown(movie) == movie \in SeqRange(filteredMovies)

\* C11: in the rendered list of either implementation, when a minimum rating
\* is the only criterion, a stored movie is shown if and only if its
\* vote_average is greater than or equal to the minimum
C11_RatingFilter ==
  (Rendered /\ SelectedRatings # {} /\ SelectedGenreIds = {} /\ SelectedYears = {}) =>
     \A k \in 1..Len(listState.movies) :
        IsShown(listState.movies[k])
          <=> (\A r \in SelectedRatings : listState.movies[k].vote_average >= r)

\* A page holding a movie rated exactly the minimum and a movie rated below
\* it is filtered by the rating chip: the boundary movie alone is shown
C11_Witness ==
  /\ Rendered
  /\ version = "chips"
  /\ SelectedRatings = {80} /\ SelectedGenreIds = {} /\ SelectedYears = {}
  /\ { listState.movies[k].vote_average : k \in 1..Len(listState.movies) } = {80, 65}
  /\ { filteredMovies[k].vote_average : k \in 1..Len(filteredMovies) } = {80}

\* C12: in the rendered list of either implementation, when a release year
\* is the only criterion, a stored movie is shown if and only if it has a
\* release date whose year equals the selected year
C12_YearFilter ==
  (Rendered /\ SelectedYears # {} /\ SelectedGenreIds = {} /\ SelectedRatings = {}) =>
     \A k \in 1..Len(listState.movies) :
        IsShown(listState.movies[k])
          <=> /\ listState.movies[k].release_date # 0
              /\ \A y \in SelectedYears : YearOf(listState.movies[k].release_date) = y

NoCriteria == SelectedGenreIds = {} /\ SelectedRatings = {} /\ SelectedYears = {}

IdSeq(list) == [k \in 1..Len(list) |-> list[k].id]

\* C13 (state part): with no genre, rating or year criterion the filtered
\* output is the stored page itself
C13_IdentityState == NoCriteria => filteredMovies = listState.movies

\* C13 (step part): when a response is stored while no criterion is selected,
\* the filtered output lists the delivered results, each once, in the
\* delivered order
C13_IdentityStep ==
  \A f \in 1..Len(fetches), results \in ResultLists :
     (/\ fetches[f].status = "pending"
      /\ fetches'[f].status = "fulfilled"
      /\ IdSeq(listState'.movies) = IdSeq(results)
      /\ NoCriteria')
        => IdSeq(filteredMovies)' = IdSeq(results)

\* C13: with no genre, rating or year criterion selected the filtered output
\* equals the fetched page: every item present, none duplicated, in the
\* order delivered by the remote source
C13_IdentityFilter == []C13_IdentityState /\ [][C13_IdentityStep]_vars

\* A page of two movies, one of them without a release date, is shown whole
\* with no criterion selected
C13_Witness ==
  /\ Rendered
  /\ NoCriteria
  /\ IdSeq(listState.movies) = <<2, 3>>
  /\ IdSeq(filteredMovies) = <<2, 3>>

\* C14: the current page of the movie list satisfies 1 <= page <= totalPages
C14_PageBounds ==
  fetches # <<>> => (1 <= listState.page /\ listState.page <= listState.totalPages)

(***************************************************************************)
(* Coming Soon: concatenation of the loaded pages                          *)
(***************************************************************************)

RECURSIVE ConcatResults(_)
\* The results of the requests, in the order the requests were issued
ConcatResults(requests) ==
  IF requests = <<>> THEN <<>>
  ELSE requests[1].results \o ConcatResults(Tail(requests))

\* The displayed list is the concatenation of the results of pages 1, 2, ...
\* in that order, and the k-th request asked for page k
C15_ConcatenationState ==
  /\ soonMovies = ConcatResults(soonRequests)
  /\ \A k \in 1..Len(soonRequests) : soonRequests[k].page = k

\* A request is issued only for a page within the known totalPages
C15_RequestStep ==
  Len(soonRequests') > Len(soonRequests)
     => soonRequests'[Len(soonRequests')].page <= soonTotalPages

\* C15: after pages 1..k have been loaded through Load More the displayed
\* list is the concatenation of the results of pages 1..k in that order, each
\* once; the pages requested are consecutive from 1 and none is beyond
\* totalPages
C15_LoadMoreConcatenation == []C15_ConcatenationState /\ [][C15_RequestStep]_vars

\* Two pages have been loaded through Load More and both are displayed
C15_Witness ==
  /\ Len(soonRequests) = 2
  /\ \A k \in 1..2 : soonRequests[k].status = "fulfilled"
  /\ soonRequests[1].results = <<2, 3>>
  /\ soonRequests[2].results = <<1>>
  /\ soonMovies = <<2, 3, 1>>

(***************************************************************************)
(* Shaping: genre resolution, cast / similar / recommended previews        *)
(***************************************************************************)

\* The positions of genre_ids whose id the catalog holds, in increasing order
RECURSIVE ResolvedPositions(_, _, _)
ResolvedPositions(genre_ids, catalog, k) ==
  IF k > Len(genre_ids) THEN <<>>
  ELSE (IF \E g \in SeqRange(catalog) : g.id = genre_ids[k] THEN <<k>> ELSE <<>>)
         \o ResolvedPositions(genre_ids, catalog, k + 1)

\* C16: when a list entry is shaped with a genre catalog (moviesWithGenres of
\* the movie list, addGenresToMovie of the home view) its genres field holds,
\* for the ids present in the catalog and in the order of the ids, the catalog
\* entry of each id; ids absent from the catalog are omitted and nothing else
\* is added
C16_GenreResolution ==
  shapeOp \in {"moviesWithGenres", "addGenresToMovie"} =>
     LET positions == ResolvedPositions(shapeReturned.genre_ids, shapeReturned.catalog, 1)
     IN  /\ Len(shapeStored.genres) = Len(positions)
         /\ \A k \in 1..Len(positions) :
               /\ shapeStored.genres[k] \in SeqRange(shapeReturned.catalog)
               /\ shapeStored.genres[k].id = shapeReturned.genre_ids[positions[k]]

\* A list entry with ids <<2, 1>> resolved against a catalog that lists 1
\* before 2: the stored genres follow the order of the ids, not of the catalog
C16_Witness ==
  /\ shapeOp = "moviesWithGenres"
  /\ shapeReturned.genre_ids = <<2, 1>>
  /\ shapeReturned.catalog = GenreCatalog
  /\ shapeStored.genres = <<[id |-> 2, name |-> "Drama"], [id |-> 1, name |-> "Action"]>>

\* The first n entries of a list, or the whole list if it is shorter
FirstEntries(list, n) ==
  [k \in 1..(IF Len(list) < n THEN Len(list) ELSE n) |-> list[k]]

\* C17: after a successful movie detail load the stored cast is the first 10
\* entries of the returned cast and the stored similar and recommended lists
\* are the first 6 entries of their returned lists, in the order returned
C17_Previews ==
  /\ shapeOp \in {"fetchMovieData", "fetchMovieDetails", "loadExtraData"} =>
        shapeStored.cast = FirstEntries(shapeReturned.cast, 10)
  /\ shapeOp \in {"fetchMovieData", "loadExtraData"} =>
        /\ shapeStored.similar = FirstEntries(shapeReturned.similar, 6)
        /\ shapeStored.recommendations = FirstEntries(shapeReturned.recommendations, 6)

\* A detail load whose cast has 11 entries and whose similar list has 7:
\* 10 and 6 are stored; a recommendations list of 4 is stored whole
C17_Witness ==
  /\ shapeOp = "fetchMovieData"
  /\ Len(shapeReturned.cast) = 11 /\ Len(shapeStored.cast) = 10
  /\ Len(shapeReturned.similar) = 7 /\ Len(shapeStored.similar) = 6
  /\ Len(shapeReturned.recommendations) = 4 /\ Len(shapeStored.recommendations) = 4

(***************************************************************************)
(* API client: one request per call; fail-fast credential check            *)
(***************************************************************************)

\* Every catalog call made so far has issued exactly one HTTP request
C18_OneRequestPerCallState == httpRequests = apiCalls

\* A request is issued only by a catalog call, one per call: nothing is
\* re-issued while a call is pending or after it failed, and a call that
\* repeats the previous one still issues its own request
C18_OneRequestPerCallStep ==
  /\ httpRequests' # httpRequests => (apiPc = "idle" /\ apiPc' = "pending")
  /\ (apiPc = "idle" /\ apiPc' = "pending") => httpRequests' = httpRequests + 1

\* C18: each catalog call issues exactly one HTTP request; a failed request is
\* not re-issued and a repeated call issues a fresh request
C18_OneRequestPerCall ==
  []C18_OneRequestPerCallState /\ [][C18_OneRequestPerCallStep]_vars

\* A call failed with a server error, the same function has been called
\* again, and two requests have been issued in all
C18_Witness ==
  /\ apiCalls = 2
  /\ httpRequests = 2
  /\ apiPc = "returned"
  /\ apiFn = "movieApi.getDetails"
  /\ apiReceived.settled /\ ~apiReceived.ok

\* C20: with the credential absent the module evaluation fails at startup and
\* no request is ever issued, neither through the client nor directly by a view
C20_FailFastCredential ==
  KeyMissing(credential) =>
     /\ appModule \in {"unevaluated", "failed"}
     /\ httpRequests = 0
     /\ apiCalls = 0
     /\ ~genreFetchIssued
     /\ apiPc = "idle"

\* Startup without a credential has failed
C20_Witness ==
  /\ credential = Undefined
  /\ appModule = "failed"

(***************************************************************************)
(* API client: redaction of the credential in diagnostic logs              *)
(***************************************************************************)

\* The token sequence seq contains the credential value
ContainsSecret(seq) == \E i \in 1..Len(seq) : seq[i] = Secret

\* C19: no line written by the API client (request, response or error log)
\* contains the credential value, whatever the request URL
C19_NoCredentialInLogs ==
  \A k \in 1..Len(console) : ~ContainsSecret(console[k].url)

(***************************************************************************)
(* Image references                                                        *)
(***************************************************************************)

\* C21: getImageUrl returns the local placeholder for every absent path
\* (null, undefined, '') and the image base, the size and the path for every
\* other path; no remote URL is built from an absent path
C21_ImageUrl ==
  shapeOp \in {"getImageUrl", "backdrop"} =>
     IF shapeReturned.path \in {Null, Undefined, ""}
     THEN shapeStored.src = <<"/placeholder-image.jpg">>
     ELSE shapeStored.src =
            <<"https://image.tmdb.org/t/p/",
              IF shapeReturned.size = Undefined THEN "w500" ELSE shapeReturned.size,
              shapeReturned.path>>

\* An image with an undefined path has been rendered as the placeholder
C21_Witness ==
  /\ shapeOp = "getImageUrl"
  /\ shapeReturned.path = Undefined
  /\ shapeStored.src = <<"/placeholder-image.jpg">>

(***************************************************************************)
(* Overlapping loads                                                       *)
(***************************************************************************)

\* Every load of the view has settled and none of its requests failed
AllLoadsSucceeded ==
  /\ state.error = Null
  /\ \A l \in Loads : /\ loads[l].stage = "done"
                      /\ loads[l].pending = 0 /\ loads[l].rejected = 0
                      /\ loads[l].secPending = 0 /\ loads[l].secRejected = 0

\* C22: when two loads of a view have been issued and both have settled
\* successfully, the view state holds the data of the load issued last,
\* whatever the order of the responses
C22_LatestLoadWins ==
  (Len(loads) = 2 /\ AllLoadsSucceeded) => state.data = Len(loads)

(***************************************************************************)
(* Movie list: overlapping fetches                                         *)
(***************************************************************************)

\* Every movie fetch issued so far has settled
AllFetchesSettled ==
  /\ fetches # <<>>
  /\ \A f \in 1..Len(fetches) : fetches[f].status # "pending"

\* C23: in the chip implementation, once the genre catalog has loaded and
\* every movie fetch has settled, the genres of every stored movie are its
\* genre ids resolved against the loaded catalog
C23_GenresFromLoadedCatalog ==
  (version = "chips" /\ genresRequest = "done" /\ AllFetchesSettled) =>
     \A k \in 1..Len(listState.movies) :
        listState.movies[k].genres =
           resolveGenres(listState.movies[k].genre_ids, listState.genres)

\* C24: in the movie list, once every fetch has settled and the fetch issued
\* last has succeeded, the error field is null, even when an earlier
\* overlapping fetch failed
C24_ErrorClearedByLatestFetch ==
  (AllFetchesSettled /\ fetches[Len(fetches)].status = "fulfilled") =>
     listState.error = Null

\* C26: in the movie list, the loading flag is true in every state in which
\* a movie fetch is outstanding
C26_LoadingWhileOutstanding ==
  (\E f \in 1..Len(fetches) : fetches[f].status = "pending") => listState.loading

(***************************************************************************)
(* Movie list: what a failed fetch and a filter change leave alone         *)
(***************************************************************************)

\* A movie fetch fails in this step
FetchFails ==
  \E f \in 1..Len(fetches) : fetches[f].status = "pending" /\ fetches'[f].status = "rejected"

\* C27: when a movie list fetch fails only the error and loading fields
\* change: the stored movies, totalPages, page, genre catalog and selected
\* filters stay as they were
C27_FailureFrameStep ==
  FetchFails =>
     /\ listState'.movies = listState.movies
     /\ listState'.totalPages = listState.totalPages
     /\ listState'.page = listState.page
     /\ listState'.genres = listState.genres
     /\ listState'.activeFilters = listState.activeFilters
     /\ listState'.error # Null
     /\ ~listState'.loading
     /\ UNCHANGED <<search, selectedGenres, selectedRating, selectedYear, genresRequest>>

C27_FailureFrame == [][C27_FailureFrameStep]_vars

\* A fetch has failed while a page of movies, its page count, the genre
\* catalog and an active filter were stored: they are all still there
C27_Witness ==
  /\ \E f \in 1..Len(fetches) : fetches[f].status = "rejected"
  /\ listState.error # Null
  /\ listState.movies # <<>>
  /\ listState.totalPages = 2
  /\ listState.page = 2
  /\ listState.genres # <<>>

\* A client-side filter changes in this step: a genre is toggled, a rating
\* or a year is chosen, or all filters are cleared
FilterChangeStep ==
  /\ \/ <<selectedGenres, selectedRating, selectedYear>>' # <<selectedGenres, selectedRating, selectedYear>>
     \/ listState'.activeFilters # listState.activeFilters
  /\ \/ \E genreId \in GenreIds(GenreCatalog) : toggleGenre(genreId)
     \/ \E rating \in Ratings : setSelectedRating(rating)
     \/ \E year \in Years : setSelectedYear(year)
     \/ \E chip \in AllChips : toggleFilter(chip)
     \/ clearFilters

\* The ids of a list of chips
ChipIds(chips) == { chips[k].id : k \in 1..Len(chips) }

C30_FilterFrameStep ==
  /\ FilterChangeStep =>
        /\ UNCHANGED fetches
        /\ listState'.movies = listState.movies
        /\ listState'.page = listState.page
        /\ listState'.totalPages = listState.totalPages
  /\ \A genreId \in GenreIds(GenreCatalog) :
        (selectedGenres' # selectedGenres /\ toggleGenre(genreId)) =>
           SeqRange(toggledGenres(selectedGenres', genreId)) = SeqRange(selectedGenres)
  /\ \A chip \in AllChips :
        (listState'.activeFilters # listState.activeFilters /\ toggleFilter(chip)) =>
           ChipIds(toggledFilters(listState'.activeFilters, chip)) = ChipIds(listState.activeFilters)
  /\ listState'.page # 1 => ~(\E text \in SearchInputs : handleSearch(text))

\* C30: changing the client-side filters of the movie list issues no request
\* and leaves the fetched movies, page and totalPages unchanged; toggling the
\* same genre a second time restores the previous selection; an in-page
\* search submission resets page to 1 (stated as: no step that leaves
\* page different from 1 is a search submission)
C30_FilterFrame == [][C30_FilterFrameStep]_vars

\* A genre is selected on page 2 of a fetched list, and no fetch is
\* outstanding
C30_Witness ==
  /\ version = "selected"
  /\ selectedGenres = <<1>>
  /\ listState.page = 2
  /\ listState.movies # <<>>
  /\ AllFetchesSettled

(***************************************************************************)
(* Single-phase movie detail view: the connection test                     *)
(***************************************************************************)

\* No detail request of a load is outstanding while its connection test is
C28_TestFirstState ==
  view = "MovieDetails" =>
     \A l \in Loads : loads[l].stage = "test" => loads[l].pending = 0

C28_TestFirstStep ==
  view = "MovieDetails" =>
     /\ Len(loads') > Len(loads) =>
           /\ loads'[Len(loads')].stage = "test"
           /\ loads'[Len(loads')].pending = 0
     /\ \A l \in Loads :
           /\ loads'[l].pending > loads[l].pending =>
                 loads[l].stage = "test" /\ loads'[l].stage = "fanout"
           /\ (loads[l].stage = "test" /\ loads'[l].stage = "done") =>
                 /\ ~state'.loading
                 /\ state'.error = "Failed to connect to TMDB API."
                 /\ loads'[l].pending = 0
           /\ loads[l].stage = "done" => loads'[l].stage = "done"

\* C28: in the single-phase movie detail view the seven detail requests of a
\* load are issued only when its connection test has succeeded; when the test
\* fails the view is left in the failure state and the load issues no detail
\* request, then or later
C28_TestFirst == []C28_TestFirstState /\ [][C28_TestFirstStep]_vars

\* A connection test has failed: the view shows the failure and the load
\* has issued no detail request
C28_Witness ==
  /\ view = "MovieDetails"
  /\ Len(loads) = 1
  /\ loads[1].stage = "done"
  /\ loads[1].pending = 0 /\ loads[1].rejected = 0
  /\ state = [loading |-> FALSE, error |-> "Failed to connect to TMDB API.", data |-> 0, extra |-> 0]

(***************************************************************************)
(* Two-phase movie detail view: presentation of a failed load              *)
(***************************************************************************)

\* C29: in the two-phase movie detail view, whenever the primary load has
\* failed (error set, loading false) the view does not present the loading
\* indicator
C29_FailurePresented ==
  (view = "MovieDetailsTwoPhase" /\ state.error # Null /\ ~state.loading) =>
     MovieDetailsTwoPhase_render(state) # "Loading"

(***************************************************************************)
(* Leaving the loading state                                               *)
(***************************************************************************)

\* No request of a load of the mounted view of Pages is outstanding
LoadsSettled ==
  \A l \in Loads : loads[l].stage = "done" /\ loads[l].pending = 0 /\ loads[l].secPending = 0

UpcomingSettled ==
  \A r \in 1..Len(soonRequests) : soonRequests[r].status # "pending"

\* A view has started a load
LoadStarted == loads # <<>> \/ fetches # <<>> \/ soonRequests # <<>>

\* The mounted view is out of the loading state with data stored or an error set
OutOfLoading ==
  /\ loads # <<>> =>
        ~state.loading /\ (state.data # 0 \/ state.error # Null)
  /\ fetches # <<>> =>
        /\ ~listState.loading
        /\ \/ \E f \in 1..Len(fetches) : fetches[f].status = "fulfilled"
           \/ listState.error # Null
  /\ soonRequests # <<>> =>
        /\ ~soonLoading
        /\ \/ \E r \in 1..Len(soonRequests) : soonRequests[r].status = "fulfilled"
           \/ soonError # Null

\* No request of the mounted view is outstanding
RequestsSettled ==
  /\ LoadsSettled
  /\ \A f \in 1..Len(fetches) : fetches[f].status # "pending"
  /\ UpcomingSettled

C25_SettledState == (LoadStarted /\ RequestsSettled) => OutOfLoading

\* The loading flag is set again only by the start of a new load
C25_StaysOutStep ==
  /\ (~state.loading /\ state'.loading) => Len(loads') > Len(loads)
  /\ (~listState.loading /\ listState'.loading) => Len(fetches') > Len(fetches)
  /\ (~soonLoading /\ soonLoading') => Len(soonRequests') > Len(soonRequests)

\* C25: if every issued request eventually settles, a view that started a
\* load eventually has no request outstanding and is then out of the loading
\* state, with data stored or an error set, and it stays out of the loading
\* state until a new load starts
C25_LeavesLoading ==
  /\ LoadStarted ~> (RequestsSettled /\ OutOfLoading)
  /\ []C25_SettledState
  /\ [][C25_StaysOutStep]_vars

\* The actor detail view has left the loading state with an error after its
\* load failed and every request settled
C25_Witness ==
  /\ view = "ActorDetails"
  /\ loads # <<>>
  /\ LoadsSettled
  /\ ~state.loading
  /\ state.error # Null

====
